---- MODULE Spec2Model ----
(***************************************************************************)
(* A model of the classification pipelines of github_skills_dataset:       *)
(*   - filter/filter.py   `filter`  (Message Batches API pipeline)         *)
(*   - validate.py        `main`    (concurrent individual calls)          *)
(* with the pure helpers they share (parse_github_url, prompt_hash,        *)
(* has_valid_frontmatter, truncate_content, parse_response).               *)
(***************************************************************************)
EXTENDS Integers, Sequences, FiniteSets, TLC

(***************************************************************************)
(* Text.  A string is a sequence of characters.  Wide is a character whose *)
(* UTF-8 encoding takes two bytes, every other character takes one.        *)
(***************************************************************************)
Dash == "-"
LetterA == "a"
LetterB == "b"
Brace == "{"
Wide == "e'"
Mark == "[truncated]"
\* A line "key: value\n" of a YAML header, as one character of the alphabet.
KeyValue == "k: v\n"

Chars == {Dash, LetterA, LetterB, Brace, Wide, Mark, KeyValue}

\* str.encode('utf-8'): a byte is <<char, k>>, the k-th byte of char's encoding.
Utf8Width(c) == IF c = Wide THEN 2 ELSE 1

RECURSIVE Encode(_)
Encode(s) ==
    IF s = <<>> THEN <<>>
    ELSE (IF Utf8Width(Head(s)) = 2 THEN <<(<<Head(s), 1>>), (<<Head(s), 2>>)>>
                                    ELSE <<(<<Head(s), 1>>)>>) \o Encode(Tail(s))

\* bytes.decode('utf-8', errors='replace'): a lead byte with no continuation
\* byte after it gives the replacement character.
RECURSIVE DecodeReplace(_)
DecodeReplace(b) ==
    IF b = <<>> THEN <<>>
    ELSE IF Utf8Width(Head(b)[1]) = 1 THEN <<Head(b)[1]>> \o DecodeReplace(Tail(b))
    ELSE IF Head(b)[2] = 1 /\ Len(b) >= 2 /\ b[2] = <<Head(b)[1], 2>>
         THEN <<Head(b)[1]>> \o DecodeReplace(Tail(Tail(b)))
    ELSE <<"U+FFFD">> \o DecodeReplace(Tail(b))

\* bytes.decode('utf-8', errors='ignore'): a complete sequence gives its
\* character, a lead byte with no continuation byte after it is dropped.
RECURSIVE DecodeIgnore(_)
DecodeIgnore(b) ==
    IF b = <<>> THEN <<>>
    ELSE IF Utf8Width(Head(b)[1]) = 1 THEN <<Head(b)[1]>> \o DecodeIgnore(Tail(b))
    ELSE IF Head(b)[2] = 1 /\ Len(b) >= 2 /\ b[2] = <<Head(b)[1], 2>>
         THEN <<Head(b)[1]>> \o DecodeIgnore(Tail(Tail(b)))
    ELSE DecodeIgnore(Tail(b))

\* config.py: CONTENT_MAX_BYTES = 3000, scaled to the model's short contents.
CONTENT_MAX_BYTES == 7

\* The literal "\n[truncated]", abbreviated to one character of the alphabet.
TruncMarker == <<Mark>>

Prefix(s, n) == SubSeq(s, 1, IF n < Len(s) THEN n ELSE Len(s))

truncate_content(content) ==
    LET encoded == Encode(content)
    IN  IF Len(encoded) <= CONTENT_MAX_BYTES THEN content
        ELSE DecodeIgnore(Prefix(encoded, CONTENT_MAX_BYTES)) \o TruncMarker

\* The lines of a header: a line ends with the KeyValue that closes it, the
\* last line is what follows the last KeyValue.
RECURSIVE LinesFrom(_, _)
LinesFrom(text, line) ==
    IF text = <<>> THEN <<line>>
    ELSE IF Head(text) = KeyValue
         THEN <<Append(line, KeyValue)>> \o LinesFrom(Tail(text), <<>>)
    ELSE LinesFrom(Tail(text), Append(line, Head(text)))

\* yaml.safe_load(text) for a text over Dash, LetterA, LetterB, Wide, Brace
\* and KeyValue: the kind of value it returns, "error" where it raises.
\*   - a line that starts with '{' opens a flow mapping nothing closes: error;
\*   - no "key: value" line: the empty text loads as None, a lone '-' as a
\*     sequence with one empty entry, any other text as a plain scalar;
\*   - "key: value" lines (each with whatever precedes it on its line as part
\*     of the key) load as a mapping, unless text follows the last of them: a
\*     line without ':' inside a block mapping is an error.
yaml_safe_load(text) ==
    LET lines == LinesFrom(text, <<>>)
        last == lines[Len(lines)]
    IN  IF \E k \in 1..Len(lines) : lines[k] # <<>> /\ lines[k][1] = Brace THEN "error"
        ELSE IF Len(lines) = 1
             THEN (IF last = <<>> THEN "none"
                   ELSE IF last = <<Dash>> THEN "sequence"
                   ELSE "scalar")
        ELSE IF last # <<>> THEN "error"
        ELSE "mapping"

IsDelimAt(s, k) ==
    /\ k + 2 <= Len(s)
    /\ s[k] = Dash /\ s[k + 1] = Dash /\ s[k + 2] = Dash

\* Positions (after the leading delimiter) where a closing '---' starts.
ClosingAt(s) == {k \in 4..Len(s) : IsDelimAt(s, k)}

Min(S) == CHOOSE x \in S : \A y \in S : x <= y

has_valid_frontmatter(content) ==
    /\ IsDelimAt(content, 1)
    /\ ClosingAt(content) # {}
    /\ yaml_safe_load(SubSeq(content, 4, Min(ClosingAt(content)) - 1)) # "error"

\* VALIDATION_PROMPT.format(content=content): the template around the content.
PromptHead == <<LetterA>>
PromptTail == <<LetterB>>
Render(content) == PromptHead \o content \o PromptTail

\* sha256 of the rendered prompt; no collisions: the digest names its input.
prompt_hash(content) == <<"sha256", Render(content)>>

(***************************************************************************)
(* Identifiers and the content root.  The text of a URL or of a path is a  *)
(* sequence of tokens: the separator '/' or a piece of text without one.   *)
(***************************************************************************)
\* Python's None, where the other value is a tuple.
None == <<>>

Slash == "/"

\* str.split('/'): the text between the separators, '' where two separators
\* meet or the text starts or ends with one.
RECURSIVE SplitFrom(_, _)
SplitFrom(text, segment) ==
    IF text = <<>> THEN <<segment>>
    ELSE IF Head(text) = Slash THEN <<segment>> \o SplitFrom(Tail(text), "")
    ELSE SplitFrom(Tail(text), segment \o Head(text))

\* A split that drops the empty segments, as str.split() does on whitespace.
SplitDroppingEmpty(text) ==
    SelectSeq(SplitFrom(text, ""), LAMBDA segment : segment # "")

Split(text) ==
    SplitFrom(text, "")

\* '/'.join(parts)
RECURSIVE Join(_)
Join(parts) ==
    IF parts = <<>> THEN <<>>
    ELSE (IF Head(parts) = "" THEN <<>> ELSE <<Head(parts)>>)
             \o (IF Len(parts) = 1 THEN <<>> ELSE <<Slash>> \o Join(Tail(parts)))

parse_github_url(url) ==
    LET parts == Split(url)
    IN  IF Len(parts) < 8 \/ parts[3] # "github.com" \/ parts[6] # "blob" THEN None
        ELSE <<parts[4], parts[5], parts[7], Join(SubSeq(parts, 8, Len(parts)))>>

\* pathlib: an operand of '/' is split on the separator, empty parts dropped.
PathParts(path) ==
    SelectSeq(Split(path), LAMBDA part : part # "")

\* args.content_dir, a relative directory: its components.
content_dir == <<"content">>

\* pathlib's '/' operator: an operand that starts with the separator is an
\* absolute path and replaces the left side; any other operand's parts are
\* appended.  The filesystem root is the component Slash.
PathJoin(base, operand) ==
    IF operand # <<>> /\ Head(operand) = Slash
    THEN <<Slash>> \o PathParts(operand)
    ELSE base \o PathParts(operand)

\* content_dir / owner / repo / "blob" / ref / path: the components of the path.
\* owner, repo and ref hold no separator; an empty one adds no component.
resolve_content_path(owner, repo, ref, path) ==
    PathJoin(SelectSeq(content_dir \o <<owner, repo, "blob", ref>>,
                       LAMBDA part : part # ""),
             path)

ContentPath(url) ==
    LET parsed == parse_github_url(url)
    IN  resolve_content_path(parsed[1], parsed[2], parsed[3], parsed[4])

Url(repo) == Join(<<"https:", "", "github.com", "o", repo, "blob", "main", "SKILL.md">>)
BadUrl == Join(<<"https:", "", "gitlab.com", "o", "r9", "blob", "main", "SKILL.md">>)

\* SELECT url FROM files of the main DB: three files with content on disk, one
\* identifier of another shape, one file whose content was not fetched.
MainDbUrls == <<Url("r1"), Url("r2"), Url("r3"), BadUrl, Url("r4")>>
FetchedUrls == {Url("r1"), Url("r2"), Url("r3")}

\* Contents a fetched file may hold.
cShort == <<Dash, Dash, Dash, Dash, Dash, Dash, LetterA>>
cLongA == <<Dash, Dash, Dash, Dash, Dash, Dash, LetterA, LetterA>>
cLongB == <<Dash, Dash, Dash, Dash, Dash, Dash, LetterA, LetterB>>
cHello == <<LetterA, LetterB>>
FileContents == {cShort, cLongA, cLongB, cHello}

(***************************************************************************)
(* The classifier's answers.  A response text is described by what each    *)
(* strategy of parse_response finds in it: the value json.loads gives for  *)
(* the whole text, for the first fenced ```json block and for the first    *)
(* {..."is_skill"...} span (NoMatch: the pattern does not occur, BadJson:  *)
(* json.loads raises).  A JSON object carries a function from its keys.    *)
(***************************************************************************)
NoMatch == [kind |-> "nomatch"]
BadJson == [kind |-> "badjson"]
JsonObject(fields) == [kind |-> "object", fields |-> fields]

Reason(marker, rest) == <<marker, rest>>
HasErrorMarker(reason) == reason[1] # ""

JsonTrue ==
    JsonObject([is_skill |-> TRUE, reason |-> Reason("", "extends capabilities")])
JsonFalse ==
    JsonObject([is_skill |-> FALSE, reason |-> Reason("", "a blog post")])

TextTrue == [whole |-> JsonTrue, fenced |-> NoMatch, scan |-> JsonTrue]
TextFalse == [whole |-> BadJson, fenced |-> JsonFalse, scan |-> JsonFalse]
TextProse == [whole |-> BadJson, fenced |-> NoMatch, scan |-> NoMatch]
ResponseTexts == {TextTrue, TextFalse, TextProse}

\* parse_response: the parsed value, or BadJson when it raises.
parse_response(text) ==
    IF text.whole.kind # "badjson" THEN text.whole
    ELSE IF text.fenced.kind # "nomatch" THEN text.fenced
    ELSE IF text.scan.kind # "nomatch" THEN text.scan
    ELSE BadJson

\* dict.get(key, default)
Get(obj, key, default) ==
    IF key \in DOMAIN obj.fields THEN obj.fields[key] ELSE default

\* One item of a batch's result stream: its result.type, and the text of a
\* succeeded one.
BatchOutcomes ==
    {[type |-> "succeeded", text |-> t] : t \in ResponseTexts}
        \cup {[type |-> ty, text |-> TextProse] : ty \in {"errored", "expired"}}

\* Responses that are a JSON object without the is_skill field: one that
\* gives a reason only, as the whole text, and an empty object in a fenced block.
JsonReasonOnly == JsonObject([reason |-> Reason("", "cannot tell")])
JsonNoFields == JsonObject([field \in {} |-> field])
TextReasonOnly == [whole |-> JsonReasonOnly, fenced |-> NoMatch, scan |-> NoMatch]
TextNoFields == [whole |-> BadJson, fenced |-> JsonNoFields, scan |-> NoMatch]
ObjectOutcomes ==
    BatchOutcomes \cup
        {[type |-> "succeeded", text |-> t] : t \in {TextReasonOnly, TextNoFields}}

\* ResultVerdict for a result loop that counts an object without is_skill as
\* a response it could not parse.
ResultVerdictStrict(outcome) ==
    IF outcome.type = "succeeded"
    THEN LET parsed == parse_response(outcome.text)
         IN  IF parsed.kind = "object" /\ "is_skill" \in DOMAIN parsed.fields
             THEN [is_skill |-> Get(parsed, "is_skill", FALSE),
                   reason |-> Get(parsed, "reason", Reason("", "")),
                   ok |-> TRUE]
             ELSE [is_skill |-> FALSE,
                   reason |-> Reason("Parse error: ", "Could not parse JSON"),
                   ok |-> FALSE]
    ELSE [is_skill |-> FALSE,
          reason |-> Reason("API error: ", outcome.type),
          ok |-> FALSE]

\* filter(): what one streamed result is turned into.
\* ok: the response was a succeeded item that parsed.
ResultVerdict(outcome) ==
    IF outcome.type = "succeeded"
    THEN LET parsed == parse_response(outcome.text)
         IN  IF parsed.kind = "object"
             THEN [is_skill |-> Get(parsed, "is_skill", FALSE),
                   reason |-> Get(parsed, "reason", Reason("", "")),
                   ok |-> TRUE]
             ELSE [is_skill |-> FALSE,
                   reason |-> Reason("Parse error: ", "Could not parse JSON"),
                   ok |-> FALSE]
    ELSE [is_skill |-> FALSE,
          reason |-> Reason("API error: ", outcome.type),
          ok |-> FALSE]

(***************************************************************************)
(* State.                                                                  *)
(***************************************************************************)
VARIABLES
    disk,           \* content root: path -> content of the file there
    cache,          \* CACHE_DIR: cache key -> [is_skill, reason]
    verdicts,       \* validation_results (committed rows): url -> [is_skill, reason]
    files,          \* the output DB's files table: set of urls
    pc,             \* where the run is
    run,            \* number of the run
    to_validate,    \* filter(): urls with content on disk
    idx,            \* filter(): position of the phase-1 loop in to_validate
    local_results,  \* filter(): rows resolved without a remote call
    uncached,       \* filter(): the dict cache_key -> (truncated, [urls]), in insertion order
    chunk_start,    \* filter(): offset of the chunk being processed
    batch_status,   \* batch.processing_status of the chunk's job
    streamed,       \* custom_ids the result stream has yielded for the chunk
    txn,            \* rows written on out_conn and not committed: url -> [is_skill, reason]
    offset,         \* validate main(): offset of the batch being processed
    tasks,          \* process_batch(): the state of each process_one or call_batch task
    permits,        \* validate process_batch(): free slots of the semaphore
    results,        \* validate process_batch(): url -> row its task returned
    calls,          \* history: url -> remote calls made for it in this run
    sent,           \* history: the requests submitted in this run
    cacheReads,     \* history: contents whose cache file was looked up in this run
    cacheWrites,    \* history: [key, ok] for every cache file written, ok: from a parsed response
    upserts,        \* history: url -> number of rows committed for it in this run
    prevVerdicts,   \* history: validation_results as the previous run left it
    prevCache,      \* history: the cache as the previous run left it
    pack_in,        \* pack_batches(): the list it is called with
    pack_out,       \* pack_batches(): the list it returned
    cache_file,     \* CACHE_DIR as the file system holds it: cache key -> text of the file
    writers,        \* processes inside insert_cached_result: what each writes and how far it is
    observed,       \* history: what the calls of get_cached_result came back with
    received,       \* history: [key, row, cached, outcome] for every remote result handled in this run
    call            \* a call of one of the pure helpers: its argument and what came back

vars == <<disk, cache, verdicts, files, pc, run, to_validate, idx, local_results,
          uncached, chunk_start, batch_status, streamed, txn, offset, tasks,
          permits, results, calls, sent, cacheReads, cacheWrites, upserts,
          prevVerdicts, prevCache, pack_in, pack_out,
          cache_file, writers, observed, received, call>>

\* The variables only filter() uses, and those only validate's main() uses.
batchVars == <<idx, local_results, uncached, chunk_start, batch_status, streamed, txn>>
poolVars == <<offset, tasks, permits, results, calls>>
packVars == <<pack_in, pack_out>>
fsVars == <<cache_file, writers, observed>>

\* No helper is being called.
NoCall == [fn |-> "none"]

\* Number of runs a behaviour holds.
MaxRuns == 2

\* config.BATCH_CHUNK_SIZE (imported by filter.py), scaled to the model's few units.
BATCH_CHUNK_SIZE == 2

Empty == [x \in {} |-> x]
NoUpserts == [u \in {MainDbUrls[k] : k \in 1..Len(MainDbUrls)} |-> 0]

\* INSERT OR IGNORE of every row of `rows`.
UpsertIgnore(table, rows) == table @@ rows

\* INSERT OR REPLACE of every row of `rows` (a function url -> row).
Upsert(table, rows) == rows @@ table

get_cached_result(cch, cache_key) ==
    IF cache_key \in DOMAIN cch THEN <<cch[cache_key]>> ELSE None

\* a cache that keeps the newest entry only
insert_cached_resultEvicting(cch, cache_key, is_skill, reason) ==
    (cache_key :> [is_skill |-> is_skill, reason |-> reason])

insert_cached_result(cch, cache_key, is_skill, reason) ==
    (cache_key :> [is_skill |-> is_skill, reason |-> reason]) @@ cch

\* filter(), lines 105-128: the urls that parse and whose file is on disk.
ToValidate(all_urls, content_paths) ==
    SelectSeq(all_urls, LAMBDA url :
        /\ parse_github_url(url) # None
        /\ ContentPath(url) \in content_paths)

Row(is_skill, reason) == [is_skill |-> is_skill, reason |-> reason]

NoEntry == [is_skill |-> FALSE, reason |-> Reason("", "")]

\* ScanOutcome with the cache looked up before the pre-filter is consulted.
ScanOutcomeLookupFirst(content, cch) ==
    LET cache_key == prompt_hash(content)
        cached == get_cached_result(cch, cache_key)
    IN  IF ~has_valid_frontmatter(content)
        THEN [lookup |-> TRUE, kind |-> "rejected", key |-> <<>>,
              entry |-> NoEntry, truncated |-> <<>>]
        ELSE IF cached # None
        THEN [lookup |-> TRUE, kind |-> "hit", key |-> cache_key,
              entry |-> cached[1], truncated |-> <<>>]
        ELSE [lookup |-> TRUE, kind |-> "miss", key |-> cache_key,
              entry |-> NoEntry, truncated |-> truncate_content(content)]

\* ScanOutcome with the cached result ignored.
ScanOutcomeNoCache(content, cch) ==
    IF has_valid_frontmatter(content)
    THEN [lookup |-> TRUE, kind |-> "miss", key |-> prompt_hash(content),
          entry |-> NoEntry, truncated |-> truncate_content(content)]
    ELSE [lookup |-> FALSE, kind |-> "rejected", key |-> <<>>,
          entry |-> NoEntry, truncated |-> <<>>]

\* filter(), lines 135-149: what the phase-1 loop does with one file.
\* lookup: the cache was read; kind: rejected by the pre-filter, cache hit, or miss.
ScanOutcome(content, cch) ==
    IF has_valid_frontmatter(content)
    THEN LET cache_key == prompt_hash(content)
             cached == get_cached_result(cch, cache_key)
         IN  IF cached # None
             THEN [lookup |-> TRUE, kind |-> "hit", key |-> cache_key,
                   entry |-> cached[1], truncated |-> <<>>]
             ELSE [lookup |-> TRUE, kind |-> "miss", key |-> cache_key,
                   entry |-> NoEntry, truncated |-> truncate_content(content)]
    ELSE [lookup |-> FALSE, kind |-> "rejected", key |-> <<>>,
          entry |-> NoEntry, truncated |-> <<>>]

\* uncached[cache_key][1].append(url), or uncached[cache_key] = (truncated, [url])
AddUncached(unc, cache_key, truncated, url) ==
    IF \E k \in 1..Len(unc) : unc[k].key = cache_key
    THEN [k \in 1..Len(unc) |->
            IF unc[k].key = cache_key
            THEN [unc[k] EXCEPT !.urls = Append(@, url)] ELSE unc[k]]
    ELSE Append(unc, [key |-> cache_key, content |-> truncated, urls |-> <<url>>])

Range(f) == {f[x] : x \in DOMAIN f}

\* unique_items[chunk_start:chunk_start + BATCH_CHUNK_SIZE]
Chunk(unc, start) ==
    SubSeq(unc, start + 1,
           IF start + BATCH_CHUNK_SIZE < Len(unc) THEN start + BATCH_CHUNK_SIZE
                                                  ELSE Len(unc))

\* filter(), lines 180-189: the requests of a chunk.
Requests(chunk) ==
    [k \in 1..Len(chunk) |->
        [custom_id |-> chunk[k].key, prompt |-> Render(chunk[k].content)]]

\* history: a request as `sent` keeps it, with the urls it was made for.
Sent(request, urls) ==
    [custom_id |-> request.custom_id, prompt |-> request.prompt, urls |-> urls]

\* CacheAfterResult for a result loop that writes no cache file.
CacheAfterResultUnwritten(cch, cache_key, v) ==
    cch

\* filter(), line 231: the cache after one streamed result was processed.
CacheAfterResult(cch, cache_key, v) ==
    insert_cached_result(cch, cache_key, v.is_skill, v.reason)

\* RowsOf with a row for the first url of the unit only.
RowsOfFirstUrl(urls, v) ==
    (urls[1] :> [is_skill |-> v.is_skill, reason |-> v.reason])

\* filter(), lines 233-237: the rows one streamed result writes on out_conn.
RowsOf(urls, v) ==
    [u \in Range(urls) |-> [is_skill |-> v.is_skill, reason |-> v.reason]]

\* rebuild_files_table: the main DB's rows whose url has is_skill = 1.
ValidFiles(table) ==
    {u \in Range(MainDbUrls) : u \in DOMAIN table /\ table[u].is_skill}

\* rebuild_files_table without its DELETE FROM files.
rebuild_files_tableNoDelete(old_files, table) == old_files \cup ValidFiles(table)

\* rebuild_files_table: the files table it leaves, from the one it found and
\* validation_results.
rebuild_files_table(old_files, table) == ValidFiles(table)

CountRows(ups, rows) ==
    [u \in DOMAIN ups |-> IF u \in DOMAIN rows THEN ups[u] + 1 ELSE ups[u]]

(***************************************************************************)
(* filter/filter.py, filter(): the Message Batches API pipeline.           *)
(***************************************************************************)
Init ==
    /\ disk \in [{ContentPath(u) : u \in FetchedUrls} -> FileContents]
    /\ cache = Empty
    /\ verdicts = Empty
    /\ files = {}
    /\ pc = "idle"
    /\ run = 1
    /\ to_validate = <<>>
    /\ idx = 1
    /\ local_results = <<>>
    /\ uncached = <<>>
    /\ chunk_start = 0
    /\ batch_status = "none"
    /\ streamed = {}
    /\ txn = Empty
    /\ offset = 0
    /\ tasks = Empty
    /\ permits = 0
    /\ results = Empty
    /\ calls = NoUpserts
    /\ sent = <<>>
    /\ cacheReads = {}
    /\ cacheWrites = {}
    /\ upserts = NoUpserts
    /\ prevVerdicts = Empty
    /\ prevCache = Empty
    /\ pack_in = <<>>
    /\ pack_out = <<>>
    /\ cache_file = Empty
    /\ writers = Empty
    /\ observed = {}
    /\ received = {}
    /\ call = NoCall

\* lines 101-128: init_output_db, read the main DB, walk the content root.
StartRun ==
    /\ pc = "idle"
    /\ to_validate' = ToValidate(MainDbUrls, DOMAIN disk)
    /\ idx' = 1
    /\ pc' = "scan"
    /\ UNCHANGED poolVars
    /\ UNCHANGED packVars
    /\ UNCHANGED call
    /\ UNCHANGED fsVars
    /\ UNCHANGED <<disk, cache, verdicts, files, run, local_results, uncached,
                   chunk_start, batch_status, streamed, txn, sent, cacheReads,
                   cacheWrites, upserts, prevVerdicts, prevCache>>
    /\ UNCHANGED received

\* lines 131-149: one iteration of the phase-1 loop.
ScanUrl ==
    /\ pc = "scan"
    /\ idx <= Len(to_validate)
    /\ LET url == to_validate[idx]
           content == disk[ContentPath(url)]
           o == ScanOutcome(content, cache)
       IN  /\ cacheReads' = IF o.lookup THEN cacheReads \cup {content} ELSE cacheReads
           /\ local_results' =
                 IF o.kind = "hit"
                 THEN Append(local_results, <<url, o.entry.is_skill, o.entry.reason>>)
                 ELSE local_results
           /\ uncached' =
                 IF o.kind = "miss"
                 THEN AddUncached(uncached, o.key, o.truncated, url)
                 ELSE uncached
    /\ idx' = idx + 1
    /\ UNCHANGED poolVars
    /\ UNCHANGED packVars
    /\ UNCHANGED call
    /\ UNCHANGED fsVars
    /\ UNCHANGED <<disk, cache, verdicts, files, pc, run, to_validate, chunk_start,
                   batch_status, streamed, txn, sent, cacheWrites, upserts,
                   prevVerdicts, prevCache>>
    /\ UNCHANGED received

\* LocalRows with a row for the first cache hit only.
LocalRowsFirstOnly(rows) ==
    IF rows = <<>> THEN Empty
    ELSE (rows[1][1] :> [is_skill |-> rows[1][2], reason |-> rows[1][3]])

LocalRows(rows) ==
    [u \in {rows[k][1] : k \in 1..Len(rows)} |->
        LET k == CHOOSE k \in 1..Len(rows) :
                    /\ rows[k][1] = u
                    /\ \A j \in 1..Len(rows) : rows[j][1] = u => j <= k
        IN  [is_skill |-> rows[k][2], reason |-> rows[k][3]]]

\* lines 157-170: write local_results and commit; with nothing uncached the run
\* goes straight to rebuild_files_table.
WriteLocal ==
    /\ pc = "scan"
    /\ idx > Len(to_validate)
    /\ verdicts' = Upsert(verdicts, LocalRows(local_results))
    /\ upserts' = CountRows(upserts, LocalRows(local_results))
    /\ chunk_start' = 0
    /\ pc' = IF uncached = <<>> THEN "rebuild" ELSE "submit"
    /\ UNCHANGED poolVars
    /\ UNCHANGED packVars
    /\ UNCHANGED call
    /\ UNCHANGED fsVars
    /\ UNCHANGED <<disk, cache, files, run, to_validate, idx, local_results,
                   uncached, batch_status, streamed, txn, sent, cacheReads,
                   cacheWrites, prevVerdicts, prevCache>>
    /\ UNCHANGED received

\* A poll loop that takes any status for the final one.
EndedAnyStatus(processing_status) == TRUE

\* A poll loop that takes no status for the final one.
EndedNever(processing_status) == FALSE

\* line 195, the test of the poll loop: batch.processing_status is "ended".
Ended(processing_status) == processing_status = "ended"

\* lines 174-192: client.messages.batches.create(requests) returns a batch.
SubmitChunk ==
    /\ pc = "submit"
    /\ sent' = sent \o
            [k \in 1..Len(Chunk(uncached, chunk_start)) |->
                Sent(Requests(Chunk(uncached, chunk_start))[k],
                     Range(Chunk(uncached, chunk_start)[k].urls))]
    /\ batch_status' \in {"in_progress", "ended"}
    /\ streamed' = {}
    /\ pc' = "poll"
    /\ UNCHANGED poolVars
    /\ UNCHANGED packVars
    /\ UNCHANGED call
    /\ UNCHANGED fsVars
    /\ UNCHANGED <<disk, cache, verdicts, files, run, to_validate, idx,
                   local_results, uncached, chunk_start, txn, cacheReads,
                   cacheWrites, upserts, prevVerdicts, prevCache>>
    /\ UNCHANGED received

\* lines 174/191 raise (no API key, transport error, rejected request):
\* control passes to the except clause of line 246.
SubmitRaises ==
    /\ pc = "submit"
    /\ pc' = "rebuild"
    /\ UNCHANGED poolVars
    /\ UNCHANGED packVars
    /\ UNCHANGED call
    /\ UNCHANGED fsVars
    /\ UNCHANGED <<disk, cache, verdicts, files, run, to_validate, idx,
                   local_results, uncached, chunk_start, batch_status, streamed,
                   txn, sent, cacheReads, cacheWrites, upserts, prevVerdicts,
                   prevCache>>
    /\ UNCHANGED received

\* lines 195-203: one turn of the poll loop.
PollBatch ==
    /\ pc = "poll"
    /\ ~Ended(batch_status)
    /\ batch_status' \in {"in_progress", "ended"}
    /\ UNCHANGED poolVars
    /\ UNCHANGED packVars
    /\ UNCHANGED call
    /\ UNCHANGED fsVars
    /\ UNCHANGED <<disk, cache, verdicts, files, pc, run, to_validate, idx,
                   local_results, uncached, chunk_start, streamed, txn, sent,
                   cacheReads, cacheWrites, upserts, prevVerdicts, prevCache>>
    /\ UNCHANGED received

\* line 197 raises.
PollRaises ==
    /\ pc = "poll"
    /\ ~Ended(batch_status)
    /\ pc' = "rebuild"
    /\ UNCHANGED poolVars
    /\ UNCHANGED packVars
    /\ UNCHANGED call
    /\ UNCHANGED fsVars
    /\ UNCHANGED <<disk, cache, verdicts, files, run, to_validate, idx,
                   local_results, uncached, chunk_start, batch_status, streamed,
                   txn, sent, cacheReads, cacheWrites, upserts, prevVerdicts,
                   prevCache>>
    /\ UNCHANGED received

\* lines 206-211: out_conn is opened, client.messages.batches.results returns.
OpenResults ==
    /\ pc = "poll"
    /\ Ended(batch_status)
    /\ pc' = "stream"
    /\ UNCHANGED poolVars
    /\ UNCHANGED packVars
    /\ UNCHANGED call
    /\ UNCHANGED fsVars
    /\ UNCHANGED <<disk, cache, verdicts, files, run, to_validate, idx,
                   local_results, uncached, chunk_start, batch_status, streamed,
                   txn, sent, cacheReads, cacheWrites, upserts, prevVerdicts,
                   prevCache>>
    /\ UNCHANGED received

\* line 211 raises.
ResultsRaises ==
    /\ pc = "poll"
    /\ Ended(batch_status)
    /\ pc' = "rebuild"
    /\ UNCHANGED poolVars
    /\ UNCHANGED packVars
    /\ UNCHANGED call
    /\ UNCHANGED fsVars
    /\ UNCHANGED <<disk, cache, verdicts, files, run, to_validate, idx,
                   local_results, uncached, chunk_start, batch_status, streamed,
                   txn, sent, cacheReads, cacheWrites, upserts, prevVerdicts,
                   prevCache>>
    /\ UNCHANGED received

\* the urls of the request sent at the position at which the result arrived
UrlsOfPosition(chunk, cache_key, position) == chunk[position].urls

\* filter(), line 214: _, urls = uncached[cache_key], for the result that
\* arrived at the given position of the stream.
UrlsOf(chunk, cache_key, position) ==
    (CHOOSE item \in Range(chunk) : item.key = cache_key).urls

ChunkKeys == {Chunk(uncached, chunk_start)[k].key :
                 k \in 1..Len(Chunk(uncached, chunk_start))}

\* lines 212-241: the stream yields one result, of any request of the chunk not
\* yet yielded; its cache file is written and its rows are written on out_conn.
StreamResultOf(outcomes) ==
    /\ \E k \in 1..Len(Chunk(uncached, chunk_start)), outcome \in outcomes :
          LET cache_key == Chunk(uncached, chunk_start)[k].key
              urls == UrlsOf(Chunk(uncached, chunk_start), cache_key,
                             Cardinality(streamed) + 1)
              v == ResultVerdict(outcome)
          IN  /\ cache_key \notin streamed
              /\ streamed' = streamed \cup {cache_key}
              /\ cache' = CacheAfterResult(cache, cache_key, v)
              /\ cacheWrites' =
                    IF cache' # cache
                    THEN cacheWrites \cup {[key |-> cache_key, ok |-> v.ok]}
                    ELSE cacheWrites
              /\ txn' = Upsert(txn, RowsOf(urls, v))
              /\ received' = received \cup
                    {[key |-> cache_key, row |-> Row(v.is_skill, v.reason),
                      cached |-> TRUE, outcome |-> outcome]}
    /\ UNCHANGED poolVars
    /\ UNCHANGED packVars
    /\ UNCHANGED call
    /\ UNCHANGED fsVars
    /\ UNCHANGED <<disk, verdicts, files, pc, run, to_validate, idx,
                   local_results, uncached, chunk_start, batch_status, sent,
                   cacheReads, upserts, prevVerdicts, prevCache>>

\* the stream's items as the other properties take them: a verdict, prose, or
\* a result that did not succeed.
StreamResult ==
    /\ pc = "stream"
    /\ StreamResultOf(BatchOutcomes)

\* the iteration of line 212 raises before the stream is exhausted.
StreamRaises ==
    /\ pc = "stream"
    /\ streamed # ChunkKeys
    /\ pc' = "rebuild"
    /\ UNCHANGED poolVars
    /\ UNCHANGED packVars
    /\ UNCHANGED call
    /\ UNCHANGED fsVars
    /\ UNCHANGED <<disk, cache, verdicts, files, run, to_validate, idx,
                   local_results, uncached, chunk_start, batch_status, streamed,
                   txn, sent, cacheReads, cacheWrites, upserts, prevVerdicts,
                   prevCache>>
    /\ UNCHANGED received

\* lines 243-245 and the loop of line 177: commit, close, next chunk.
CommitChunk ==
    /\ pc = "stream"
    /\ streamed = ChunkKeys
    /\ verdicts' = Upsert(verdicts, txn)
    /\ upserts' = CountRows(upserts, txn)
    /\ txn' = Empty
    /\ chunk_start' = chunk_start + BATCH_CHUNK_SIZE
    /\ pc' = IF chunk_start + BATCH_CHUNK_SIZE < Len(uncached) THEN "submit"
                                                              ELSE "rebuild"
    /\ UNCHANGED poolVars
    /\ UNCHANGED packVars
    /\ UNCHANGED call
    /\ UNCHANGED fsVars
    /\ UNCHANGED <<disk, cache, files, run, to_validate, idx, local_results,
                   uncached, batch_status, streamed, sent, cacheReads,
                   cacheWrites, prevVerdicts, prevCache>>
    /\ UNCHANGED received

\* rebuild_files_table (lines 76-96), called at line 168 or line 250.  After an
\* exception in the result loop out_conn is still open with its uncommitted
\* rows, so it holds the database's write lock: DELETE FROM files on the second
\* connection raises sqlite3.OperationalError (database is locked), filter()
\* ends with that exception and the uncommitted rows are rolled back.
RebuildLocked(pending) == pending # Empty

Rebuild ==
    /\ pc = "rebuild"
    /\ IF RebuildLocked(txn)
       THEN /\ pc' = "aborted"
            /\ txn' = Empty
            /\ files' = files
       ELSE /\ pc' = "done"
            /\ txn' = txn
            /\ files' = rebuild_files_table(files, verdicts)
    /\ UNCHANGED poolVars
    /\ UNCHANGED packVars
    /\ UNCHANGED call
    /\ UNCHANGED fsVars
    /\ UNCHANGED <<disk, cache, verdicts, run, to_validate, idx, local_results,
                   uncached, chunk_start, batch_status, streamed, sent,
                   cacheReads, cacheWrites, upserts, prevVerdicts, prevCache>>
    /\ UNCHANGED received

\* the command is run again on the same databases, content root and cache.
NextRun ==
    /\ pc \in {"done", "aborted"}
    /\ run < MaxRuns
    /\ run' = run + 1
    /\ pc' = "idle"
    /\ prevVerdicts' = verdicts
    /\ prevCache' = cache
    /\ to_validate' = <<>>
    /\ idx' = 1
    /\ local_results' = <<>>
    /\ uncached' = <<>>
    /\ chunk_start' = 0
    /\ batch_status' = "none"
    /\ streamed' = {}
    /\ sent' = <<>>
    /\ cacheReads' = {}
    /\ upserts' = NoUpserts
    /\ UNCHANGED poolVars
    /\ UNCHANGED packVars
    /\ UNCHANGED call
    /\ UNCHANGED fsVars
    /\ UNCHANGED <<disk, cache, verdicts, files, txn, cacheWrites>>
    /\ received' = {}

Next ==
    \/ StartRun
    \/ ScanUrl
    \/ WriteLocal
    \/ SubmitChunk
    \/ SubmitRaises
    \/ PollBatch
    \/ PollRaises
    \/ OpenResults
    \/ ResultsRaises
    \/ StreamResult
    \/ StreamRaises
    \/ CommitChunk
    \/ Rebuild
    \/ NextRun

Spec == Init /\ [][Next]_vars

\* The content root holds three files with frontmatter, two of them longer
\* than the truncation budget.
InitFair ==
    /\ Init
    /\ disk = (ContentPath(Url("r1")) :> cLongA) @@ (ContentPath(Url("r2")) :> cLongB)
                 @@ (ContentPath(Url("r3")) :> cShort)

\* The Batches-API pipeline when a response may also be an object without
\* the is_skill field; two of the three files hold the same content.
InitObjects ==
    /\ Init
    /\ disk[ContentPath(Url("r1"))] = disk[ContentPath(Url("r2"))]

StreamResultAnyObject ==
    /\ pc = "stream"
    /\ StreamResultOf(ObjectOutcomes)

NextObjects ==
    \/ StartRun
    \/ ScanUrl
    \/ WriteLocal
    \/ SubmitChunk
    \/ SubmitRaises
    \/ PollBatch
    \/ PollRaises
    \/ OpenResults
    \/ ResultsRaises
    \/ StreamResultAnyObject
    \/ StreamRaises
    \/ CommitChunk
    \/ Rebuild
    \/ NextRun

SpecObjects == InitObjects /\ [][NextObjects]_vars

\* The steps of filter() when no remote call raises.
NextReturns ==
    \/ StartRun
    \/ ScanUrl
    \/ WriteLocal
    \/ SubmitChunk
    \/ PollBatch
    \/ OpenResults
    \/ StreamResult
    \/ CommitChunk
    \/ Rebuild
    \/ NextRun

\* ENABLED <<ScanUrl>>_vars, written out.
ScanUrlEnabled == pc = "scan" /\ idx <= Len(to_validate)

\* filter() run by an event loop that resumes it whenever the call it awaits
\* has returned: every remote call returns, and a job that is polled reaches
\* "ended" (PollBatch changes the state only by setting that status).  Weak
\* fairness of every step; for ScanUrl it is spelled out with ScanUrlEnabled.
FairSpec ==
    /\ InitFair
    /\ [][NextReturns]_vars
    /\ WF_vars(StartRun)
    /\ ([]<>~ScanUrlEnabled \/ []<><<ScanUrl>>_vars)
    /\ WF_vars(WriteLocal)
    /\ WF_vars(SubmitChunk)
    /\ WF_vars(PollBatch)
    /\ WF_vars(OpenResults)
    /\ WF_vars(StreamResult)
    /\ WF_vars(CommitChunk)
    /\ WF_vars(Rebuild)
    /\ WF_vars(NextRun)

ContentOf(url) == disk[ContentPath(url)]

(***************************************************************************)
(* validate.py, main(): one remote call per file, issued by concurrent     *)
(* process_one tasks under a semaphore.                                    *)
(***************************************************************************)
\* args.max_concurrent and args.batch_size
max_concurrent == 2
batch_size == 3

\* a semaphore that never blocks
lockedNever(value) == FALSE

\* asyncio.Semaphore.locked(): acquire() would block.
locked(value) == value = 0

\* What the remote call of validate_file comes back with: the text of the
\* reply, or an exception raised by query().
QueryReplies ==
    {[raised |-> FALSE, text |-> t] : t \in ResponseTexts}
        \cup {[raised |-> TRUE, text |-> TextProse]}

\* process_one, lines 186-200, and validate_file, lines 140-143: what a task
\* does between taking the semaphore and its remote call.
\* kind "final": the task returns row; kind "call": it makes the remote call.
ProcessOneStart(url, dsk, cch) ==
    IF parse_github_url(url) = None
    THEN [kind |-> "final", lookup |-> FALSE,
          row |-> Row(FALSE, Reason("", "Invalid URL format"))]
    ELSE IF ContentPath(url) \notin DOMAIN dsk
    THEN [kind |-> "final", lookup |-> FALSE,
          row |-> Row(FALSE, Reason("", "File not found"))]
    ELSE IF ~has_valid_frontmatter(dsk[ContentPath(url)])
    THEN [kind |-> "final", lookup |-> FALSE,
          row |-> Row(FALSE, Reason("", "No valid YAML frontmatter"))]
    ELSE LET cached == get_cached_result(cch, prompt_hash(dsk[ContentPath(url)]))
         IN  IF cached # None
             THEN [kind |-> "final", lookup |-> TRUE, row |-> cached[1]]
             ELSE [kind |-> "call", lookup |-> TRUE, row |-> NoEntry]

\* validate_file, lines 148-179: what a reply is turned into.  ok: the reply
\* parsed, so the result is cached and returned; otherwise RuntimeError is raised.
ValidateReply(reply) ==
    IF reply.raised THEN [ok |-> FALSE, row |-> NoEntry]
    ELSE LET parsed == parse_response(reply.text)
         IN  IF parsed.kind = "object"
             THEN [ok |-> TRUE,
                   row |-> Row(Get(parsed, "is_skill", FALSE),
                               Get(parsed, "reason", Reason("", "")))]
             ELSE [ok |-> FALSE, row |-> NoEntry]

\* process_one, lines 207-208: the row of a task whose validate_file raised.
ErrorRow == Row(FALSE, Reason("Error: ", "Claude API error"))

InitValidate ==
    /\ disk \in [{ContentPath(u) : u \in FetchedUrls} -> FileContents]
    /\ cache = Empty
    /\ verdicts = Empty
    /\ files = {}
    /\ pc = "v_idle"
    /\ run = 1
    /\ to_validate = <<>>
    /\ idx = 1
    /\ local_results = <<>>
    /\ uncached = <<>>
    /\ chunk_start = 0
    /\ batch_status = "none"
    /\ streamed = {}
    /\ txn = Empty
    /\ offset = 0
    /\ tasks = Empty
    /\ permits = max_concurrent
    /\ results = Empty
    /\ calls = NoUpserts
    /\ sent = <<>>
    /\ cacheReads = {}
    /\ cacheWrites = {}
    /\ upserts = NoUpserts
    /\ prevVerdicts = Empty
    /\ prevCache = Empty
    /\ pack_in = <<>>
    /\ pack_out = <<>>
    /\ cache_file = Empty
    /\ writers = Empty
    /\ observed = {}
    /\ received = {}
    /\ call = NoCall

\* main(), lines 217-231: the urls with no row yet; with none, main returns.
VStart ==
    /\ pc = "v_idle"
    /\ to_validate' = SelectSeq(MainDbUrls, LAMBDA url : url \notin DOMAIN verdicts)
    /\ offset' = 0
    /\ permits' = max_concurrent
    /\ pc' = IF to_validate' = <<>> THEN "v_done" ELSE "v_spawn"
    /\ UNCHANGED batchVars
    /\ UNCHANGED packVars
    /\ UNCHANGED call
    /\ UNCHANGED fsVars
    /\ UNCHANGED <<disk, cache, verdicts, files, run, tasks, results, calls, sent,
                   cacheReads, cacheWrites, upserts, prevVerdicts, prevCache>>
    /\ UNCHANGED received

BatchUrls ==
    Range(SubSeq(to_validate, offset + 1,
                 IF offset + batch_size < Len(to_validate) THEN offset + batch_size
                                                           ELSE Len(to_validate)))

\* main(), lines 234-238, and process_batch, lines 210-211: a task per url.
VSpawn ==
    /\ pc = "v_spawn"
    /\ tasks' = [u \in BatchUrls |-> "waiting"]
    /\ results' = Empty
    /\ pc' = "v_gather"
    /\ UNCHANGED batchVars
    /\ UNCHANGED packVars
    /\ UNCHANGED call
    /\ UNCHANGED fsVars
    /\ UNCHANGED <<disk, cache, verdicts, files, run, to_validate, offset, permits,
                   calls, sent, cacheReads, cacheWrites, upserts, prevVerdicts,
                   prevCache>>
    /\ UNCHANGED received

\* process_one, lines 184-205: a task takes the semaphore and runs up to its
\* remote call, or to its return (which releases the semaphore).
VAcquire ==
    /\ pc = "v_gather"
    /\ ~locked(permits)
    /\ \E u \in DOMAIN tasks :
          LET o == ProcessOneStart(u, disk, cache)
          IN  /\ tasks[u] = "waiting"
              /\ cacheReads' = IF o.lookup THEN cacheReads \cup {ContentOf(u)}
                                           ELSE cacheReads
              /\ IF o.kind = "final"
                 THEN /\ tasks' = [tasks EXCEPT ![u] = "finished"]
                      /\ results' = (u :> o.row) @@ results
                      /\ UNCHANGED <<permits, calls, sent>>
                 ELSE /\ tasks' = [tasks EXCEPT ![u] = "calling"]
                      /\ permits' = permits - 1
                      /\ calls' = [calls EXCEPT ![u] = @ + 1]
                      /\ sent' = Append(sent,
                                         Sent([custom_id |-> prompt_hash(ContentOf(u)),
                                               prompt |-> Render(ContentOf(u))], {u}))
                      /\ UNCHANGED results
    /\ UNCHANGED batchVars
    /\ UNCHANGED packVars
    /\ UNCHANGED call
    /\ UNCHANGED fsVars
    /\ UNCHANGED <<disk, cache, verdicts, files, pc, run, to_validate, offset,
                   cacheWrites, upserts, prevVerdicts, prevCache>>
    /\ UNCHANGED received

\* validate_file, lines 150-179, and process_one, lines 203-208: the remote call
\* of a task returns or raises; the task returns its row and releases the semaphore.
VReply ==
    /\ pc = "v_gather"
    /\ \E u \in DOMAIN tasks, reply \in QueryReplies :
          LET v == ValidateReply(reply)
              cache_key == prompt_hash(ContentOf(u))
          IN  /\ tasks[u] = "calling"
              /\ tasks' = [tasks EXCEPT ![u] = "finished"]
              /\ permits' = permits + 1
              /\ cache' = IF v.ok
                           THEN insert_cached_result(cache, cache_key,
                                                     v.row.is_skill, v.row.reason)
                           ELSE cache
              /\ cacheWrites' = IF v.ok
                                 THEN cacheWrites \cup {[key |-> cache_key, ok |-> TRUE]}
                                 ELSE cacheWrites
              /\ results' = (u :> (IF v.ok THEN v.row ELSE ErrorRow)) @@ results
              /\ received' = received \cup
                    {[key |-> cache_key, row |-> IF v.ok THEN v.row ELSE ErrorRow,
                      cached |-> v.ok]}
    /\ UNCHANGED batchVars
    /\ UNCHANGED packVars
    /\ UNCHANGED call
    /\ UNCHANGED fsVars
    /\ UNCHANGED <<disk, verdicts, files, pc, run, to_validate, offset, calls, sent,
                   cacheReads, upserts, prevVerdicts, prevCache>>

\* main(), lines 241-254: gather has returned; every result is inserted and
\* committed, then the next batch starts.
VSave ==
    /\ pc = "v_gather"
    /\ \A u \in DOMAIN tasks : tasks[u] = "finished"
    /\ verdicts' = Upsert(verdicts, results)
    /\ upserts' = CountRows(upserts, results)
    /\ offset' = offset + batch_size
    /\ pc' = IF offset + batch_size < Len(to_validate) THEN "v_spawn" ELSE "v_done"
    /\ UNCHANGED batchVars
    /\ UNCHANGED packVars
    /\ UNCHANGED call
    /\ UNCHANGED fsVars
    /\ UNCHANGED <<disk, cache, files, run, to_validate, tasks, permits, results,
                   calls, sent, cacheReads, cacheWrites, prevVerdicts, prevCache>>
    /\ UNCHANGED received

\* the command is run again on the same databases, content root and cache.
VNextRun ==
    /\ pc = "v_done"
    /\ run < MaxRuns
    /\ run' = run + 1
    /\ pc' = "v_idle"
    /\ prevVerdicts' = verdicts
    /\ prevCache' = cache
    /\ to_validate' = <<>>
    /\ offset' = 0
    /\ tasks' = Empty
    /\ results' = Empty
    /\ calls' = NoUpserts
    /\ sent' = <<>>
    /\ cacheReads' = {}
    /\ upserts' = NoUpserts
    /\ UNCHANGED batchVars
    /\ UNCHANGED packVars
    /\ UNCHANGED call
    /\ UNCHANGED fsVars
    /\ UNCHANGED <<disk, cache, verdicts, files, permits, cacheWrites>>
    /\ received' = {}

NextValidate ==
    \/ VStart
    \/ VSpawn
    \/ VAcquire
    \/ VReply
    \/ VSave
    \/ VNextRun

SpecValidate == InitValidate /\ [][NextValidate]_vars

(***************************************************************************)
(* filter.py (the module beside the filter package), main(): files are     *)
(* packed into batches, one remote call per batch, issued by concurrent    *)
(* call_batch tasks under a semaphore.                                     *)
(***************************************************************************)
\* scaled from 30000 and 20 to the sizes of FileContents
BATCH_TOKEN_BUDGET == 3
BATCH_MAX_FILES == 2
BYTES_PER_TOKEN == 4

\* len(content.encode('utf-8'))
SizeBytes(content) == Len(Encode(content))

Item(url, content) == [url |-> url, content |-> content]

\* BatchFull with no cap on the number of files of a batch.
BatchFullNoCap(current_batch, current_tokens, estimated_tokens) ==
    current_tokens + estimated_tokens > BATCH_TOKEN_BUDGET

\* BatchFull for a packer that closes the current batch before every item,
\* an empty one included.
BatchFullAlways(current_batch, current_tokens, estimated_tokens) ==
    TRUE

\* BatchFull for a packer that closes every batch after one item.
BatchFullEager(current_batch, current_tokens, estimated_tokens) ==
    current_batch # <<>>

\* pack_batches, line 159: the item does not go into the current batch.
BatchFull(current_batch, current_tokens, estimated_tokens) ==
    \/ current_tokens + estimated_tokens > BATCH_TOKEN_BUDGET
    \/ Len(current_batch) >= BATCH_MAX_FILES

\* EmitOversized with the oversized item left out.
EmitOversizedDropped(batches, current_batch, item) ==
    IF current_batch # <<>> THEN Append(batches, current_batch) ELSE batches

\* pack_batches, lines 152-157: the current batch is flushed and the oversized
\* item is sent alone.
EmitOversized(batches, current_batch, item) ==
    Append(IF current_batch # <<>> THEN Append(batches, current_batch) ELSE batches,
           <<item>>)

\* pack_batches, the loop of lines 148-166 over the items left, with
\* current_batch, current_tokens and batches as they stand.
RECURSIVE PackFrom(_, _, _, _)
PackFrom(items, current_batch, current_tokens, batches) ==
    IF items = <<>>
    THEN IF current_batch # <<>> THEN Append(batches, current_batch) ELSE batches
    ELSE LET url == Head(items).url
             content == Head(items).content
             estimated_tokens == Head(items).size_bytes \div BYTES_PER_TOKEN
         IN  IF estimated_tokens > BATCH_TOKEN_BUDGET
             THEN PackFrom(Tail(items), <<>>, 0,
                           EmitOversized(batches, current_batch, Item(url, content)))
             ELSE IF BatchFull(current_batch, current_tokens, estimated_tokens)
             THEN PackFrom(Tail(items), <<Item(url, content)>>, estimated_tokens,
                           Append(batches, current_batch))
             ELSE PackFrom(Tail(items), Append(current_batch, Item(url, content)),
                           current_tokens + estimated_tokens, batches)

pack_batches(items) == PackFrom(items, <<>>, 0, <<>>)

\* make_batch_user_prompt
RECURSIVE BatchParts(_, _)
BatchParts(file_contents, i) ==
    IF i > Len(file_contents) THEN <<>>
    ELSE <<"=== File " \o ToString(i) \o " ===">> \o file_contents[i].content
            \o BatchParts(file_contents, i + 1)

make_batch_user_prompt(file_contents) ==
    <<"Classify these " \o ToString(Len(file_contents)) \o " files:">>
        \o BatchParts(file_contents, 1)

\* process_batch, lines 325-344: the rows of the urls rejected locally.
LocalRejects(urls, dsk) ==
    [u \in {v \in Range(urls) : ~has_valid_frontmatter(dsk[ContentPath(v)])} |->
        Row(FALSE, Reason("", "No valid YAML frontmatter"))]

\* process_batch, line 346: the files that need the classifier.
Items(urls, dsk) ==
    [k \in 1..Len(SelectSeq(urls, LAMBDA v : has_valid_frontmatter(dsk[ContentPath(v)]))) |->
        LET u == SelectSeq(urls, LAMBDA v : has_valid_frontmatter(dsk[ContentPath(v)]))[k]
        IN  [url |-> u, content |-> dsk[ContentPath(u)],
             size_bytes |-> SizeBytes(dsk[ContentPath(u)])]]

\* validate_batch_files, lines 245-252: the files of a batch with no cache file.
Uncached(file_contents, cch) ==
    SelectSeq(file_contents,
              LAMBDA f : get_cached_result(cch, prompt_hash(f.content)) = None)

\* validate_batch_files, lines 245-250: the rows of the files with a cache file.
CachedRows(file_contents, cch) ==
    [u \in {f.url : f \in {g \in Range(file_contents) :
                              get_cached_result(cch, prompt_hash(g.content)) # None}} |->
        cch[prompt_hash(disk[ContentPath(u)])]]

\* What the remote call of validate_batch_files comes back with: an exception,
\* a reply that is no JSON array of the right length, or such an array, each
\* element an object with is_skill true or false, or not an object.
BatchReplies(n) ==
    {[kind |-> k, items |-> <<>>] : k \in {"raised", "unusable"}}
        \cup {[kind |-> "list", items |-> s] :
                s \in [1..n -> {"valid", "invalid", "notobject"}]}

\* validate_batch_files, lines 296-302: the position at which the loop over the
\* parsed array raises, Len + 1 when it completes.
FirstBad(items) ==
    Min({j \in 1..Len(items) : items[j] = "notobject"} \cup {Len(items) + 1})

BatchRow(item) == Row(item = "valid", Reason("", "one sentence"))

\* validate_batch_files, lines 296-302: the cache after the loop has handled
\* the elements before position n.
RECURSIVE CacheAfterBatch(_, _, _, _)
CacheAfterBatch(cch, unc, items, n) ==
    IF n = 0 THEN cch
    ELSE insert_cached_result(CacheAfterBatch(cch, unc, items, n - 1),
                              prompt_hash(unc[n].content),
                              BatchRow(items[n]).is_skill, BatchRow(items[n]).reason)

\* validate_file, lines 202-205, inside the fallback loop of lines 309-315: the
\* first position from p on whose file has no cache file.
RECURSIVE FallbackSkip(_, _, _)
FallbackSkip(unc, p, cch) ==
    IF p > Len(unc) \/ get_cached_result(cch, prompt_hash(unc[p].content)) = None
    THEN p
    ELSE FallbackSkip(unc, p + 1, cch)

\* validate_batch_files, lines 306-316: the fallback loop runs from position
\* `from` until a file needs its remote call, or to its end, where the task
\* returns and releases the semaphore.
Fallback(j, from, cch, rows) ==
    LET unc == tasks[j].unc
        p == FallbackSkip(unc, from, cch)
    IN  /\ results' =
              [u \in {unc[k].url : k \in from..(p - 1)} |->
                  cch[prompt_hash(disk[ContentPath(u)])]] @@ rows
        /\ cacheReads' = cacheReads \cup
              {unc[k].content : k \in from..(IF p > Len(unc) THEN Len(unc) ELSE p)}
        /\ IF p > Len(unc)
           THEN /\ tasks' = [tasks EXCEPT ![j].st = "finished"]
                /\ permits' = permits + 1
                /\ UNCHANGED <<sent, calls>>
           ELSE /\ tasks' = [tasks EXCEPT ![j].st = "fallback", ![j].pos = p]
                /\ sent' = Append(sent,
                                   Sent([custom_id |-> prompt_hash(unc[p].content),
                                         prompt |-> Render(unc[p].content)],
                                        {unc[p].url}))
                /\ calls' = [calls EXCEPT ![unc[p].url] = @ + 1]
                /\ UNCHANGED permits

InitLegacy ==
    /\ disk \in [{ContentPath(u) : u \in FetchedUrls} -> FileContents]
    /\ cache = Empty
    /\ verdicts = Empty
    /\ files = {}
    /\ pc = "l_idle"
    /\ run = 1
    /\ to_validate = <<>>
    /\ idx = 1
    /\ local_results = <<>>
    /\ uncached = <<>>
    /\ chunk_start = 0
    /\ batch_status = "none"
    /\ streamed = {}
    /\ txn = Empty
    /\ offset = 0
    /\ tasks = Empty
    /\ permits = max_concurrent
    /\ results = Empty
    /\ calls = NoUpserts
    /\ sent = <<>>
    /\ cacheReads = {}
    /\ cacheWrites = {}
    /\ upserts = NoUpserts
    /\ prevVerdicts = Empty
    /\ prevCache = Empty
    /\ pack_in = <<>>
    /\ pack_out = <<>>
    /\ cache_file = Empty
    /\ writers = Empty
    /\ observed = {}
    /\ received = {}
    /\ call = NoCall

\* main(), lines 411-446: the urls with no row yet that parse and have content
\* on disk; with none, main goes straight to the rebuild.
LStart ==
    /\ pc = "l_idle"
    /\ to_validate' = SelectSeq(MainDbUrls, LAMBDA url :
                          /\ url \notin DOMAIN verdicts
                          /\ parse_github_url(url) # None
                          /\ ContentPath(url) \in DOMAIN disk)
    /\ offset' = 0
    /\ permits' = max_concurrent
    /\ pc' = IF to_validate' = <<>> THEN "l_rebuild" ELSE "l_spawn"
    /\ UNCHANGED batchVars
    /\ UNCHANGED packVars
    /\ UNCHANGED call
    /\ UNCHANGED fsVars
    /\ UNCHANGED <<disk, cache, verdicts, files, run, tasks, results, calls, sent,
                   cacheReads, cacheWrites, upserts, prevVerdicts, prevCache>>
    /\ UNCHANGED received

LegacyBatch ==
    SubSeq(to_validate, offset + 1,
           IF offset + batch_size < Len(to_validate) THEN offset + batch_size
                                                     ELSE Len(to_validate))

\* main(), lines 452-456, and process_batch, lines 321-357: the local rejects
\* get their rows, the other files are packed and a task is made per batch.
LSpawn ==
    /\ pc = "l_spawn"
    /\ results' = LocalRejects(LegacyBatch, disk)
    /\ tasks' = [j \in 1..Len(pack_batches(Items(LegacyBatch, disk))) |->
                    [files |-> pack_batches(Items(LegacyBatch, disk))[j],
                     st |-> "waiting", unc |-> <<>>, pos |-> 0]]
    /\ pc' = "l_gather"
    /\ UNCHANGED batchVars
    /\ UNCHANGED packVars
    /\ UNCHANGED call
    /\ UNCHANGED fsVars
    /\ UNCHANGED <<disk, cache, verdicts, files, run, to_validate, offset, permits,
                   calls, sent, cacheReads, cacheWrites, upserts, prevVerdicts,
                   prevCache>>
    /\ UNCHANGED received

\* call_batch, lines 351-353, and validate_batch_files, lines 240-275: a task
\* takes the semaphore, looks every file up in the cache and runs to its remote
\* call, or to its return when every file was cached.
LAcquire ==
    /\ pc = "l_gather"
    /\ ~locked(permits)
    /\ \E j \in DOMAIN tasks :
          LET file_contents == tasks[j].files
              unc == Uncached(file_contents, cache)
          IN  /\ tasks[j].st = "waiting"
              /\ cacheReads' = cacheReads \cup {f.content : f \in Range(file_contents)}
              /\ results' = CachedRows(file_contents, cache) @@ results
              /\ IF unc = <<>>
                 THEN /\ tasks' = [tasks EXCEPT ![j].st = "finished"]
                      /\ UNCHANGED <<permits, calls, sent>>
                 ELSE /\ permits' = permits - 1
                      /\ calls' = [u \in DOMAIN calls |->
                                      IF u \in {f.url : f \in Range(unc)}
                                      THEN calls[u] + 1 ELSE calls[u]]
                      /\ IF Len(unc) = 1
                         THEN /\ tasks' = [tasks EXCEPT ![j].st = "single",
                                                        ![j].unc = unc, ![j].pos = 1]
                              /\ sent' = Append(sent,
                                    Sent([custom_id |-> prompt_hash(unc[1].content),
                                          prompt |-> Render(unc[1].content)],
                                         {unc[1].url}))
                         ELSE /\ tasks' = [tasks EXCEPT ![j].st = "batchcall",
                                                        ![j].unc = unc]
                              /\ sent' = Append(sent,
                                    Sent([custom_id |-> <<"batch", make_batch_user_prompt(unc)>>,
                                          prompt |-> make_batch_user_prompt(unc)],
                                         {f.url : f \in Range(unc)}))
    /\ UNCHANGED batchVars
    /\ UNCHANGED packVars
    /\ UNCHANGED call
    /\ UNCHANGED fsVars
    /\ UNCHANGED <<disk, cache, verdicts, files, pc, run, to_validate, offset,
                   cacheWrites, upserts, prevVerdicts, prevCache>>
    /\ UNCHANGED received

\* validate_batch_files, lines 257-261, and validate_file, lines 209-237: the
\* remote call for the one uncached file of a batch returns or raises.  Nothing
\* catches what validate_file raises here: it leaves gather and main().
LSingleReply ==
    /\ pc = "l_gather"
    /\ \E j \in DOMAIN tasks, reply \in QueryReplies :
          LET v == ValidateReply(reply)
              url == tasks[j].unc[1].url
              cache_key == prompt_hash(tasks[j].unc[1].content)
          IN  /\ tasks[j].st = "single"
              /\ received' = received \cup
                    {[key |-> cache_key, row |-> IF v.ok THEN v.row ELSE ErrorRow,
                      cached |-> v.ok]}
              /\ IF v.ok
                 THEN /\ cache' = insert_cached_result(cache, cache_key,
                                                       v.row.is_skill, v.row.reason)
                      /\ cacheWrites' = cacheWrites \cup {[key |-> cache_key, ok |-> TRUE]}
                      /\ results' = (url :> v.row) @@ results
                      /\ tasks' = [tasks EXCEPT ![j].st = "finished"]
                      /\ permits' = permits + 1
                      /\ pc' = pc
                 ELSE /\ pc' = "l_crashed"
                      /\ UNCHANGED <<cache, cacheWrites, results, tasks, permits>>
    /\ UNCHANGED batchVars
    /\ UNCHANGED packVars
    /\ UNCHANGED call
    /\ UNCHANGED fsVars
    /\ UNCHANGED <<disk, verdicts, files, run, to_validate, offset, calls, sent,
                   cacheReads, upserts, prevVerdicts, prevCache>>

\* validate_batch_files, lines 267-316: the remote call for a batch returns or
\* raises.  A usable array is cached and returned element by element; anything
\* else starts the fallback loop over the uncached files.
LBatchReply ==
    /\ pc = "l_gather"
    /\ \E j \in DOMAIN tasks :
          /\ tasks[j].st = "batchcall"
          /\ \E reply \in BatchReplies(Len(tasks[j].unc)) :
                LET unc == tasks[j].unc
                    done == IF reply.kind = "list" THEN FirstBad(reply.items) - 1 ELSE 0
                    after == CacheAfterBatch(cache, unc, reply.items, done)
                IN  /\ cache' = after
                    /\ cacheWrites' = cacheWrites \cup
                          {[key |-> prompt_hash(unc[k].content), ok |-> TRUE] : k \in 1..done}
                    /\ received' = received \cup
                          {[key |-> prompt_hash(unc[k].content),
                            row |-> BatchRow(reply.items[k]), cached |-> TRUE] :
                                k \in 1..done}
                    /\ IF reply.kind = "list" /\ done = Len(unc)
                       THEN /\ results' = [u \in {f.url : f \in Range(unc)} |->
                                            BatchRow(reply.items[
                                                CHOOSE k \in 1..Len(unc) : unc[k].url = u])]
                                          @@ results
                            /\ tasks' = [tasks EXCEPT ![j].st = "finished"]
                            /\ permits' = permits + 1
                            /\ UNCHANGED <<sent, calls, cacheReads>>
                       ELSE Fallback(j, 1, after, results)
    /\ UNCHANGED batchVars
    /\ UNCHANGED packVars
    /\ UNCHANGED call
    /\ UNCHANGED fsVars
    /\ UNCHANGED <<disk, verdicts, files, pc, run, to_validate, offset, upserts,
                   prevVerdicts, prevCache>>

\* validate_file, lines 209-237, inside the fallback loop of lines 309-315: the
\* remote call for one file returns or raises; the file gets its row and the
\* loop goes on.
LFallbackReply ==
    /\ pc = "l_gather"
    /\ \E j \in DOMAIN tasks, reply \in QueryReplies :
          /\ tasks[j].st = "fallback"
          /\ LET v == ValidateReply(reply)
                 f == tasks[j].unc[tasks[j].pos]
                 cache_key == prompt_hash(f.content)
                 after == IF v.ok
                          THEN insert_cached_result(cache, cache_key,
                                                    v.row.is_skill, v.row.reason)
                          ELSE cache
             IN  /\ received' = received \cup
                       {[key |-> cache_key, row |-> IF v.ok THEN v.row ELSE ErrorRow,
                         cached |-> v.ok]}
                 /\ cache' = after
                 /\ cacheWrites' = IF v.ok
                                    THEN cacheWrites \cup {[key |-> cache_key, ok |-> TRUE]}
                                    ELSE cacheWrites
                 /\ Fallback(j, tasks[j].pos + 1, after,
                             (f.url :> (IF v.ok THEN v.row ELSE ErrorRow)) @@ results)
    /\ UNCHANGED batchVars
    /\ UNCHANGED packVars
    /\ UNCHANGED call
    /\ UNCHANGED fsVars
    /\ UNCHANGED <<disk, verdicts, files, pc, run, to_validate, offset, upserts,
                   prevVerdicts, prevCache>>

\* main(), lines 458-478: gather has returned; every result is inserted and
\* committed, then the next batch starts or the loop ends.
LSave ==
    /\ pc = "l_gather"
    /\ \A j \in DOMAIN tasks : tasks[j].st = "finished"
    /\ verdicts' = Upsert(verdicts, results)
    /\ upserts' = CountRows(upserts, results)
    /\ offset' = offset + batch_size
    /\ pc' = IF offset + batch_size < Len(to_validate) THEN "l_spawn" ELSE "l_rebuild"
    /\ UNCHANGED batchVars
    /\ UNCHANGED packVars
    /\ UNCHANGED call
    /\ UNCHANGED fsVars
    /\ UNCHANGED <<disk, cache, files, run, to_validate, tasks, permits, results,
                   calls, sent, cacheReads, cacheWrites, prevVerdicts, prevCache>>
    /\ UNCHANGED received

\* main(), lines 482-484, and rebuild_files_table.
LRebuild ==
    /\ pc = "l_rebuild"
    /\ files' = rebuild_files_table(files, verdicts)
    /\ pc' = "l_done"
    /\ UNCHANGED batchVars
    /\ UNCHANGED packVars
    /\ UNCHANGED call
    /\ UNCHANGED fsVars
    /\ UNCHANGED poolVars
    /\ UNCHANGED <<disk, cache, verdicts, run, to_validate, sent, cacheReads,
                   cacheWrites, upserts, prevVerdicts, prevCache>>
    /\ UNCHANGED received

\* the command is run again on the same databases, content root and cache.
LNextRun ==
    /\ pc \in {"l_done", "l_crashed"}
    /\ run < MaxRuns
    /\ run' = run + 1
    /\ pc' = "l_idle"
    /\ prevVerdicts' = verdicts
    /\ prevCache' = cache
    /\ to_validate' = <<>>
    /\ offset' = 0
    /\ tasks' = Empty
    /\ results' = Empty
    /\ calls' = NoUpserts
    /\ sent' = <<>>
    /\ cacheReads' = {}
    /\ upserts' = NoUpserts
    /\ UNCHANGED batchVars
    /\ UNCHANGED packVars
    /\ UNCHANGED call
    /\ UNCHANGED fsVars
    /\ UNCHANGED <<disk, cache, verdicts, files, permits, cacheWrites>>
    /\ received' = {}

NextLegacy ==
    \/ LStart
    \/ LSpawn
    \/ LAcquire
    \/ LSingleReply
    \/ LBatchReply
    \/ LFallbackReply
    \/ LSave
    \/ LRebuild
    \/ LNextRun

SpecLegacy == InitLegacy /\ [][NextLegacy]_vars

(***************************************************************************)
(* pack_batches called on its own, on every list of up to MaxItems items.  *)
(***************************************************************************)
MaxItems == 4
MaxItemTokens == 4

\* sizes of 0..MaxItemTokens estimated tokens, some not a multiple of BYTES_PER_TOKEN
ItemSizes ==
    {t * BYTES_PER_TOKEN + (BYTES_PER_TOKEN - 1) * (t % 2) : t \in 0..MaxItemTokens}

PackInputs ==
    UNION {{[k \in 1..n |-> [url |-> Url(ToString(k)), content |-> cShort,
                              size_bytes |-> sizes[k]]] : sizes \in [1..n -> ItemSizes]}
                : n \in 0..MaxItems}

InitPack ==
    /\ disk = Empty
    /\ cache = Empty
    /\ verdicts = Empty
    /\ files = {}
    /\ pc = "p_call"
    /\ run = 1
    /\ to_validate = <<>>
    /\ idx = 1
    /\ local_results = <<>>
    /\ uncached = <<>>
    /\ chunk_start = 0
    /\ batch_status = "none"
    /\ streamed = {}
    /\ txn = Empty
    /\ offset = 0
    /\ tasks = Empty
    /\ permits = max_concurrent
    /\ results = Empty
    /\ calls = NoUpserts
    /\ sent = <<>>
    /\ cacheReads = {}
    /\ cacheWrites = {}
    /\ upserts = NoUpserts
    /\ prevVerdicts = Empty
    /\ prevCache = Empty
    /\ pack_in \in PackInputs
    /\ pack_out = <<>>
    /\ cache_file = Empty
    /\ writers = Empty
    /\ observed = {}
    /\ received = {}
    /\ call = NoCall

\* process_batch, line 349: api_batches = pack_batches(items)
PackBatches ==
    /\ pc = "p_call"
    /\ pack_out' = pack_batches(pack_in)
    /\ pc' = "p_returned"
    /\ UNCHANGED batchVars
    /\ UNCHANGED poolVars
    /\ UNCHANGED fsVars
    /\ UNCHANGED <<disk, cache, verdicts, files, run, to_validate, sent, cacheReads,
                   cacheWrites, upserts, prevVerdicts, prevCache, pack_in>>
    /\ UNCHANGED received
    /\ UNCHANGED call

NextPack == PackBatches

SpecPack == InitPack /\ [][NextPack]_vars

\* The url whose content changes between runs.
RefetchedUrl == Url("r1")

\* Between two runs the content of one file is fetched again and differs.
NextRunRefetched ==
    /\ pc \in {"done", "aborted"}
    /\ run < MaxRuns
    /\ \E content \in FileContents \ {disk[ContentPath(RefetchedUrl)]} :
          disk' = [disk EXCEPT ![ContentPath(RefetchedUrl)] = content]
    /\ run' = run + 1
    /\ pc' = "idle"
    /\ prevVerdicts' = verdicts
    /\ prevCache' = cache
    /\ to_validate' = <<>>
    /\ idx' = 1
    /\ local_results' = <<>>
    /\ uncached' = <<>>
    /\ chunk_start' = 0
    /\ batch_status' = "none"
    /\ streamed' = {}
    /\ sent' = <<>>
    /\ cacheReads' = {}
    /\ upserts' = NoUpserts
    /\ UNCHANGED poolVars
    /\ UNCHANGED packVars
    /\ UNCHANGED call
    /\ UNCHANGED fsVars
    /\ UNCHANGED <<cache, verdicts, files, txn, cacheWrites>>
    /\ received' = {}

(***************************************************************************)
(* The cache directory as the file system holds it: processes that share   *)
(* CACHE_DIR write and read the file of a key, and a process can be killed *)
(* inside a write.                                                         *)
(***************************************************************************)
MaxWriters == 2

Writers == 1..MaxWriters

\* the key of the file the processes share
SharedKey == prompt_hash(cShort)

\* the results written: is_skill either way, reasons of two lengths
WrittenEntries ==
    {[is_skill |-> b, reason |-> r] :
        b \in BOOLEAN, r \in {<<"skill">>, <<"not", "a", "skill">>}}

\* json.dumps({"is_skill": is_skill, "reason": reason}), as a sequence of tokens
JsonDumps(entry) ==
    <<Brace, "is_skill", IF entry.is_skill THEN "true" ELSE "false", "reason">>
        \o entry.reason \o <<"}">>

\* json.loads of the text of a cache file: the text is one object with the
\* two fields and nothing after it, or JSONDecodeError is raised.
JsonLoads(text) ==
    IF /\ Len(text) >= 5
       /\ text[1] = Brace
       /\ text[2] = "is_skill"
       /\ text[3] \in {"true", "false"}
       /\ text[4] = "reason"
       /\ text[Len(text)] = "}"
       /\ \A i \in 5..(Len(text) - 1) : text[i] # "}"
    THEN [raised |-> FALSE,
          entry |-> [is_skill |-> text[3] = "true",
                     reason |-> SubSeq(text, 5, Len(text) - 1)]]
    ELSE [raised |-> TRUE, entry |-> [is_skill |-> FALSE, reason |-> <<>>]]

\* a write of data at offset 0 of a file holding old
WriteAtStart(old, data) ==
    [i \in 1..(IF Len(old) > Len(data) THEN Len(old) ELSE Len(data)) |->
        IF i <= Len(data) THEN data[i] ELSE old[i]]

InitCacheFile ==
    /\ disk = Empty
    /\ cache = Empty
    /\ verdicts = Empty
    /\ files = {}
    /\ pc = "c_shared"
    /\ run = 1
    /\ to_validate = <<>>
    /\ idx = 1
    /\ local_results = <<>>
    /\ uncached = <<>>
    /\ chunk_start = 0
    /\ batch_status = "none"
    /\ streamed = {}
    /\ txn = Empty
    /\ offset = 0
    /\ tasks = Empty
    /\ permits = max_concurrent
    /\ results = Empty
    /\ calls = NoUpserts
    /\ sent = <<>>
    /\ cacheReads = {}
    /\ cacheWrites = {}
    /\ upserts = NoUpserts
    /\ prevVerdicts = Empty
    /\ prevCache = Empty
    /\ pack_in = <<>>
    /\ pack_out = <<>>
    /\ cache_file = Empty
    /\ writers = [w \in Writers |-> [st |-> "idle", data |-> <<>>]]
    /\ observed = {}
    /\ received = {}
    /\ call = NoCall

\* insert_cached_result, Path.write_text: the file is opened for writing, which
\* creates it or truncates it to nothing.
WriteOpen ==
    /\ pc = "c_shared"
    /\ \E w \in Writers, entry \in WrittenEntries :
          /\ writers[w].st = "idle"
          /\ writers' = [writers EXCEPT ![w] = [st |-> "open", data |-> JsonDumps(entry)]]
          /\ cache_file' = (SharedKey :> <<>>) @@ cache_file
    /\ UNCHANGED <<pc, observed>>
    /\ UNCHANGED batchVars
    /\ UNCHANGED poolVars
    /\ UNCHANGED packVars
    /\ UNCHANGED call
    /\ UNCHANGED <<disk, cache, verdicts, files, run, to_validate, sent, cacheReads,
                   cacheWrites, upserts, prevVerdicts, prevCache>>
    /\ UNCHANGED received

\* insert_cached_result, Path.write_text: the text is written from the start of
\* the file when the file is closed.
WriteClose ==
    /\ pc = "c_shared"
    /\ \E w \in Writers :
          /\ writers[w].st = "open"
          /\ cache_file' = [cache_file EXCEPT
                                ![SharedKey] = WriteAtStart(@, writers[w].data)]
          /\ writers' = [writers EXCEPT ![w].st = "closed"]
    /\ UNCHANGED <<pc, observed>>
    /\ UNCHANGED batchVars
    /\ UNCHANGED poolVars
    /\ UNCHANGED packVars
    /\ UNCHANGED call
    /\ UNCHANGED <<disk, cache, verdicts, files, run, to_validate, sent, cacheReads,
                   cacheWrites, upserts, prevVerdicts, prevCache>>
    /\ UNCHANGED received

\* the process is killed between the open and the write: nothing is written.
WriteInterrupted ==
    /\ pc = "c_shared"
    /\ \E w \in Writers :
          /\ writers[w].st = "open"
          /\ writers' = [writers EXCEPT ![w].st = "killed"]
    /\ UNCHANGED <<pc, cache_file, observed>>
    /\ UNCHANGED batchVars
    /\ UNCHANGED poolVars
    /\ UNCHANGED packVars
    /\ UNCHANGED call
    /\ UNCHANGED <<disk, cache, verdicts, files, run, to_validate, sent, cacheReads,
                   cacheWrites, upserts, prevVerdicts, prevCache>>
    /\ UNCHANGED received

\* get_cached_result: None without a file, else json.loads of its text.
ReadCached ==
    /\ pc = "c_shared"
    /\ observed' = observed \cup
          {IF SharedKey \notin DOMAIN cache_file
           THEN [kind |-> "none", entry |-> [is_skill |-> FALSE, reason |-> <<>>]]
           ELSE IF JsonLoads(cache_file[SharedKey]).raised
           THEN [kind |-> "JSONDecodeError", entry |-> [is_skill |-> FALSE, reason |-> <<>>]]
           ELSE [kind |-> "entry", entry |-> JsonLoads(cache_file[SharedKey]).entry]}
    /\ UNCHANGED <<pc, cache_file, writers>>
    /\ UNCHANGED batchVars
    /\ UNCHANGED poolVars
    /\ UNCHANGED packVars
    /\ UNCHANGED call
    /\ UNCHANGED <<disk, cache, verdicts, files, run, to_validate, sent, cacheReads,
                   cacheWrites, upserts, prevVerdicts, prevCache>>
    /\ UNCHANGED received

NextCacheFile ==
    \/ WriteOpen
    \/ WriteClose
    \/ WriteInterrupted
    \/ ReadCached

SpecCacheFile == InitCacheFile /\ [][NextCacheFile]_vars

\* Any of the three pipelines, run on the same inputs.
InitAny == Init \/ InitValidate \/ InitLegacy
NextAny == Next \/ NextValidate \/ NextLegacy
SpecAny == InitAny /\ [][NextAny]_vars

\* Any of the three pipelines, or processes sharing the cache directory.
InitCaches == InitAny \/ InitCacheFile
NextCaches == NextAny \/ NextCacheFile
SpecCaches == InitCaches /\ [][NextCaches]_vars

\* Either filter pipeline: the Message Batches one or the packed-call one.
InitFilter == Init \/ InitLegacy
NextFilter == Next \/ NextLegacy
SpecFilter == InitFilter /\ [][NextFilter]_vars

\* Any of the three pipelines, run again and again while the content root changes.
\* The two files that are not fetched again hold the same content.
InitRefetch ==
    /\ InitAny
    /\ disk[ContentPath(Url("r2"))] = disk[ContentPath(Url("r3"))]

NextRefetch == NextAny \/ NextRunRefetched
SpecRefetch == InitRefetch /\ [][NextRefetch]_vars

(***************************************************************************)
(* filter() interrupted: the process is ended from outside (SIGINT raises  *)
(* KeyboardInterrupt, which `except Exception` does not catch; SIGKILL)    *)
(* after a result of a chunk was processed and before the chunk's commit.  *)
(***************************************************************************)
\* lines 212-243: the process ends; the rows written on out_conn and not
\* committed are rolled back, the cache files written stay, and
\* rebuild_files_table does not run.
Interrupt ==
    /\ pc = "stream"
    /\ streamed # {}
    /\ pc' = "aborted"
    /\ txn' = Empty
    /\ UNCHANGED poolVars
    /\ UNCHANGED packVars
    /\ UNCHANGED call
    /\ UNCHANGED fsVars
    /\ UNCHANGED <<disk, cache, verdicts, files, run, to_validate, idx,
                   local_results, uncached, chunk_start, batch_status, streamed,
                   sent, cacheReads, cacheWrites, upserts, prevVerdicts,
                   prevCache>>
    /\ UNCHANGED received

NextInterrupted == Next \/ Interrupt

SpecInterrupted == Init /\ [][NextInterrupted]_vars

(***************************************************************************)
(* The pure helpers, each called once on an argument drawn from a bounded  *)
(* set: parse_github_url, has_valid_frontmatter, truncate_content and      *)
(* parse_response.                                                         *)
(***************************************************************************)
MaxUrlSegments == 9
MaxHeaderLen == 3
MaxContentLen == 8

\* URLs "https://" followed by up to MaxUrlSegments - 2 further segments.
UrlSegments == {"github.com", "blob", "o"}
UrlTexts ==
    {Join(<<"https:", "">> \o tail) :
        tail \in UNION {[1..n -> UrlSegments] : n \in 0..(MaxUrlSegments - 2)}}

\* Contents with or without a leading delimiter, a header of up to
\* MaxHeaderLen characters, with or without a closing delimiter, and a body.
Delimiter == <<Dash, Dash, Dash>>
HeaderChars == {Dash, LetterA, Brace, KeyValue}
Headers == UNION {[1..n -> HeaderChars] : n \in 0..MaxHeaderLen}
FrontmatterContents ==
    {lead \o header \o closing \o body :
        lead \in {<<>>, <<LetterA>>, Delimiter}, header \in Headers,
        closing \in {<<>>, Delimiter}, body \in {<<>>, <<LetterA>>}}

\* Contents of one-byte and two-byte characters, up to MaxContentLen characters.
TruncateContents == UNION {[1..n -> {LetterA, Wide}] : n \in 0..MaxContentLen}

\* Response texts: what each strategy finds in them.  A text that is a JSON
\* object with the "is_skill" key, or that holds a fenced one, matches the
\* scan pattern too.
ParseInputs ==
    {text \in [whole : {JsonTrue, BadJson}, fenced : {NoMatch, BadJson, JsonFalse},
               scan : {NoMatch, BadJson, JsonTrue}] :
        /\ text.whole = JsonTrue => text.scan = JsonTrue
        /\ text.fenced = JsonFalse => text.scan # NoMatch}

Calling(fn, arg) ==
    [fn |-> fn, arg |-> arg, returned |-> FALSE, raised |-> FALSE, value |-> None]

Returned(value) ==
    [call EXCEPT !.returned = TRUE, !.value = value]

Raised ==
    [call EXCEPT !.returned = TRUE, !.raised = TRUE]

InitHelpers ==
    /\ disk = Empty
    /\ cache = Empty
    /\ verdicts = Empty
    /\ files = {}
    /\ pc = "h_call"
    /\ run = 1
    /\ to_validate = <<>>
    /\ idx = 1
    /\ local_results = <<>>
    /\ uncached = <<>>
    /\ chunk_start = 0
    /\ batch_status = "none"
    /\ streamed = {}
    /\ txn = Empty
    /\ offset = 0
    /\ tasks = Empty
    /\ permits = max_concurrent
    /\ results = Empty
    /\ calls = NoUpserts
    /\ sent = <<>>
    /\ cacheReads = {}
    /\ cacheWrites = {}
    /\ upserts = NoUpserts
    /\ prevVerdicts = Empty
    /\ prevCache = Empty
    /\ pack_in = <<>>
    /\ pack_out = <<>>
    /\ cache_file = Empty
    /\ writers = Empty
    /\ observed = {}
    /\ received = {}
    /\ \/ \E url \in UrlTexts : call = Calling("parse_github_url", url)
       \/ \E content \in FrontmatterContents :
             call = Calling("has_valid_frontmatter", content)
       \/ \E content \in TruncateContents : call = Calling("truncate_content", content)
       \/ \E text \in ParseInputs : call = Calling("parse_response", text)

HelperFrame ==
    /\ UNCHANGED batchVars
    /\ UNCHANGED poolVars
    /\ UNCHANGED packVars
    /\ UNCHANGED fsVars
    /\ UNCHANGED <<disk, cache, verdicts, files, run, to_validate, sent, cacheReads,
                   cacheWrites, upserts, prevVerdicts, prevCache, received>>

ParseGithubUrl ==
    /\ pc = "h_call"
    /\ call.fn = "parse_github_url"
    /\ call' = Returned(parse_github_url(call.arg))
    /\ pc' = "h_returned"
    /\ HelperFrame

HasValidFrontmatter ==
    /\ pc = "h_call"
    /\ call.fn = "has_valid_frontmatter"
    /\ call' = Returned(has_valid_frontmatter(call.arg))
    /\ pc' = "h_returned"
    /\ HelperFrame

TruncateContent ==
    /\ pc = "h_call"
    /\ call.fn = "truncate_content"
    /\ call' = Returned(truncate_content(call.arg))
    /\ pc' = "h_returned"
    /\ HelperFrame

\* parse_response returns the parsed value or raises (json.JSONDecodeError
\* out of a json.loads, ValueError at its last line).
ParseResponse ==
    /\ pc = "h_call"
    /\ call.fn = "parse_response"
    /\ LET parsed == parse_response(call.arg)
       IN  call' = IF parsed = BadJson THEN Raised ELSE Returned(parsed)
    /\ pc' = "h_returned"
    /\ HelperFrame

NextHelpers ==
    \/ ParseGithubUrl
    \/ HasValidFrontmatter
    \/ TruncateContent
    \/ ParseResponse

SpecHelpers == InitHelpers /\ [][NextHelpers]_vars

\* ---------------------------------------------------------------------------
\* The file a pipeline reads for one identifier, on a filesystem that holds
\* files under the content root and files outside it.  A path is the sequence
\* of its components; a relative path starts at the working directory.

\* A directory exists where a file lies below it; the working directory, the
\* filesystem root and what lies above the working directory always do.
IsDir(stack, fs) ==
    \/ stack = <<>>
    \/ stack = <<Slash>>
    \/ stack[Len(stack)] = ".."
    \/ \E f \in DOMAIN fs : Len(f) > Len(stack) /\ SubSeq(f, 1, Len(stack)) = stack

\* the directory '..' names in `stack`
Parent(stack) ==
    IF stack = <<Slash>> THEN stack
    ELSE IF stack = <<>> \/ stack[Len(stack)] = ".." THEN Append(stack, "..")
    ELSE SubSeq(stack, 1, Len(stack) - 1)

\* The operating system's path resolution, as Path.exists and Path.read_text
\* use it: pathlib keeps '..' components, the system follows them, and it
\* fails on '..' after a name that is not a directory.
RECURSIVE ResolveFrom(_, _, _)
ResolveFrom(stack, rest, fs) ==
    IF rest = <<>> THEN [found |-> TRUE, path |-> stack]
    ELSE IF Head(rest) = ".."
         THEN IF IsDir(stack, fs) THEN ResolveFrom(Parent(stack), Tail(rest), fs)
              ELSE [found |-> FALSE, path |-> stack]
         ELSE ResolveFrom(Append(stack, Head(rest)), Tail(rest), fs)

\* local_path.exists()
PathExists(local_path, fs) ==
    LET target == ResolveFrom(<<>>, local_path, fs)
    IN  target.found /\ (target.path \in DOMAIN fs \/ IsDir(target.path, fs))

\* local_path.read_text(): the file read, or None when the call raises.
FileRead(local_path, fs) ==
    LET target == ResolveFrom(<<>>, local_path, fs)
    IN  IF target.found /\ target.path \in DOMAIN fs THEN <<target.path>> ELSE None

\* os.walk(args.content_dir) with os.path.join(dirpath, fname): the files
\* below the content root, each named by content_dir and the names below it.
os_walk(fs) ==
    {f \in DOMAIN fs : /\ Len(f) > Len(content_dir)
                       /\ SubSeq(f, 1, Len(content_dir)) = content_dir}

GithubUrl(owner, path) ==
    Join(<<"https:", "", "github.com", owner, "r1", "blob", "main">> \o path)

\* Identifiers of the upstream source: plain ones, one that does not parse,
\* one with an empty owner, one whose owner is '..', and paths with a doubled
\* separator, with '..' that stays below the root, with '..' that leaves it,
\* and with an empty first segment.
PathUrls ==
    { GithubUrl("o", <<"SKILL.md">>),
      GithubUrl("o", <<"docs", "SKILL.md">>),
      GithubUrl("o", <<"docs", "", "SKILL.md">>),
      GithubUrl("o", <<"docs", "..", "SKILL.md">>),
      GithubUrl("o", <<"..", "..", "..", "..", "..", "secret">>),
      GithubUrl("o", <<"", "etc", "passwd">>),
      GithubUrl("", <<"SKILL.md">>),
      GithubUrl("..", <<"SKILL.md">>),
      BadUrl }

PathFiles ==
    { <<"content", "o", "r1", "blob", "main", "SKILL.md">>,
      <<"content", "o", "r1", "blob", "main", "docs", "SKILL.md">>,
      <<"content", "r1", "blob", "main", "SKILL.md">>,
      <<"r1", "blob", "main", "SKILL.md">>,
      <<"secret">>,
      <<Slash, "etc", "passwd">> }

PathDisks == {[f \in present |-> cShort] : present \in SUBSET PathFiles}

InitPaths ==
    /\ disk \in PathDisks
    /\ cache = Empty
    /\ verdicts = Empty
    /\ files = {}
    /\ pc = "r_call"
    /\ run = 1
    /\ to_validate = <<>>
    /\ idx = 1
    /\ local_results = <<>>
    /\ uncached = <<>>
    /\ chunk_start = 0
    /\ batch_status = "none"
    /\ streamed = {}
    /\ txn = Empty
    /\ offset = 0
    /\ tasks = Empty
    /\ permits = max_concurrent
    /\ results = Empty
    /\ calls = NoUpserts
    /\ sent = <<>>
    /\ cacheReads = {}
    /\ cacheWrites = {}
    /\ upserts = NoUpserts
    /\ prevVerdicts = Empty
    /\ prevCache = Empty
    /\ pack_in = <<>>
    /\ pack_out = <<>>
    /\ cache_file = Empty
    /\ writers = Empty
    /\ observed = {}
    /\ received = {}
    /\ \E fn \in {"validate.process_one", "filter.filter", "filter.main"},
          url \in PathUrls :
          call = Calling(fn, url)

\* validate.py, process_one, lines 186-196: the file is read when the url
\* parses and local_path.exists(); a directory makes read_text raise, which
\* line 207 catches.
ValidateReads ==
    /\ pc = "r_call"
    /\ call.fn = "validate.process_one"
    /\ call' = IF parse_github_url(call.arg) = None THEN Returned(None)
               ELSE IF ~PathExists(ContentPath(call.arg), disk) THEN Returned(None)
               ELSE Returned(FileRead(ContentPath(call.arg), disk))
    /\ pc' = "r_returned"
    /\ HelperFrame

\* filter/filter.py, lines 110-135: the file is read when the url parses and
\* str(local_path) is one of the names os.walk gave.
FilterReads ==
    /\ pc = "r_call"
    /\ call.fn = "filter.filter"
    /\ call' = IF parse_github_url(call.arg) = None THEN Returned(None)
               ELSE IF ContentPath(call.arg) \notin os_walk(disk) THEN Returned(None)
               ELSE Returned(FileRead(ContentPath(call.arg), disk))
    /\ pc' = "r_returned"
    /\ HelperFrame

\* filter.py, main lines 425-444 and process_batch lines 326-337: process_batch
\* reads the urls main kept, those whose str(local_path) os.walk gave.
LegacyReads ==
    /\ pc = "r_call"
    /\ call.fn = "filter.main"
    /\ call' = IF ToValidate(<<call.arg>>, os_walk(disk)) = <<>> THEN Returned(None)
               ELSE Returned(FileRead(ContentPath(call.arg), disk))
    /\ pc' = "r_returned"
    /\ HelperFrame

NextPaths ==
    \/ ValidateReads
    \/ FilterReads
    \/ LegacyReads

SpecPaths == InitPaths /\ [][NextPaths]_vars

(***************************************************************************)
(* Properties.                                                             *)
(***************************************************************************)
\* The request the pipeline submits for a content: the template around the
\* truncated content.
SubmittedPrompt(content) == Render(truncate_content(content))

\* The identifiers that parse and have a content file.
WithContent ==
    {u \in Range(MainDbUrls) :
        parse_github_url(u) # None /\ ContentPath(u) \in DOMAIN disk}
Candidates == {u \in WithContent : has_valid_frontmatter(ContentOf(u))}
Rejected == {u \in WithContent : ~has_valid_frontmatter(ContentOf(u))}
PendingUrls == UNION {Range(uncached[k].urls) : k \in 1..Len(uncached)}
Scanned == pc \notin {"idle", "scan"}
RunEnded == pc \in {"done", "aborted"}

\* C1: two candidates whose submitted requests are byte-identical cause at most
\* one request between them, and at the end of the run both are recorded with
\* the same is_skill and reason.
C1_DedupByRenderedRequest ==
    \A a \in Candidates, b \in Candidates :
        (a # b /\ SubmittedPrompt(ContentOf(a)) = SubmittedPrompt(ContentOf(b))) =>
            /\ Cardinality({k \in 1..Len(sent) :
                    sent[k].prompt = SubmittedPrompt(ContentOf(a))}) <= 1
            /\ RunEnded =>
                    /\ (a \in DOMAIN verdicts) = (b \in DOMAIN verdicts)
                    /\ a \in DOMAIN verdicts => verdicts[a] = verdicts[b]

\* C2: no cache file is ever written from a failed outcome (a non-succeeded
\* item or a response that does not parse).
C2_NoFailureCached == \A w \in cacheWrites : w.ok

\* C3: once the next run has scanned its candidates, an identifier whose
\* recorded verdict is a failure verdict is pending again (its content is to be
\* submitted), and one with a definitive verdict is not.
C3_FailuresRetriedNextRun ==
    (run >= 2 /\ Scanned) =>
        \A u \in Candidates \cap DOMAIN prevVerdicts :
            HasErrorMarker(prevVerdicts[u].reason) = (u \in PendingUrls)

\* C4 as stated: the second run submits no request, and a definitive verdict of
\* the first run is the same after the second.
C4_SecondRunSubmitsNothing ==
    run >= 2 =>
        /\ sent = <<>>
        /\ RunEnded =>
              \A u \in DOMAIN prevVerdicts :
                  ~HasErrorMarker(prevVerdicts[u].reason) => verdicts[u] = prevVerdicts[u]

\* C4 (amended): the second run submits a request only for a unit that has no
\* cache entry after the first run, and a definitive verdict of the first run
\* is the same after the second.
C4_CachedUnitsNotResubmitted ==
    run >= 2 =>
        /\ \A k \in 1..Len(sent) : sent[k].custom_id \notin DOMAIN prevCache
        /\ RunEnded =>
              \A u \in DOMAIN prevVerdicts :
                  ~HasErrorMarker(prevVerdicts[u].reason) => verdicts[u] = prevVerdicts[u]

C4_Witness ==
    /\ run = 2
    /\ pc = "done"
    /\ sent # <<>>
    /\ \E k \in 1..Len(local_results) : prompt_hash(ContentOf(local_results[k][1])) \in DOMAIN prevCache
    /\ \E u \in DOMAIN prevVerdicts : ~HasErrorMarker(prevVerdicts[u].reason)

\* C5: when the run ends, every identifier of a pending unit has had exactly
\* one row committed for it in this run.
C5_EveryPendingUrlUpsertedOnce ==
    RunEnded => \A u \in PendingUrls : upserts[u] = 1

\* C6: when the run ends, every candidate the pre-filter rejects has a
\* definitive row with is_skill false.
C6_RejectsRecorded ==
    RunEnded =>
        \A u \in Rejected :
            /\ u \in DOMAIN verdicts
            /\ ~verdicts[u].is_skill
            /\ ~HasErrorMarker(verdicts[u].reason)

\* C7: in each of the three pipelines, for a content the pre-filter rejects there is no
\* cache read, no cache write and no request.
C7_PreFilterPrecedence ==
    \A u \in Rejected :
        /\ ContentOf(u) \notin cacheReads
        /\ prompt_hash(ContentOf(u)) \notin DOMAIN cache
        /\ \A w \in cacheWrites : w.key # prompt_hash(ContentOf(u))
        /\ \A k \in 1..Len(sent) :
              /\ u \notin sent[k].urls
              /\ sent[k].custom_id # prompt_hash(ContentOf(u))
              /\ sent[k].prompt # SubmittedPrompt(ContentOf(u))
              /\ sent[k].prompt # Render(ContentOf(u))

C7_Witness ==
    /\ pc = "done"
    /\ Rejected # {}
    /\ cacheReads # {}
    /\ cacheWrites # {}
    /\ sent # <<>>

\* C8: a task whose remote call failed returns its failure row only after
\* three attempts, and no cache file was written from a failure.
C8_ThreeAttemptsBeforeFailure ==
    \A u \in DOMAIN results :
        results[u] = ErrorRow =>
            /\ calls[u] = 3
            /\ \A w \in cacheWrites : w.ok

\* C9: no run ends without rebuilding the files table.
C9_RunAlwaysRebuilds == pc # "aborted"

\* C10: the cache key of a unit is the hash of the request rendered from the
\* unit's (truncated) content, so contents with the same truncation share a unit.
C10_KeyOfTruncatedContent ==
    /\ \A k \in 1..Len(uncached) : uncached[k].key = prompt_hash(uncached[k].content)
    /\ Scanned =>
          \A a \in PendingUrls, b \in PendingUrls :
              truncate_content(ContentOf(a)) = truncate_content(ContentOf(b)) =>
                  \E k \in 1..Len(uncached) :
                      a \in Range(uncached[k].urls) /\ b \in Range(uncached[k].urls)

\* The estimated tokens of the item of pack_in with the given url.
EstimatedTokens(url) ==
    (CHOOSE it \in Range(pack_in) : it.url = url).size_bytes \div BYTES_PER_TOKEN

RECURSIVE SumTokens(_)
SumTokens(batch) ==
    IF batch = <<>> THEN 0 ELSE EstimatedTokens(Head(batch).url) + SumTokens(Tail(batch))

RECURSIVE Flatten(_)
Flatten(bs) == IF bs = <<>> THEN <<>> ELSE Head(bs) \o Flatten(Tail(bs))

Oversized == {it \in Range(pack_in) : it.size_bytes \div BYTES_PER_TOKEN > BATCH_TOKEN_BUDGET}

\* C11: every batch pack_batches returns is within the token budget or is a
\* single oversized item, and no batch has more than BATCH_MAX_FILES items.
C11_BatchesWithinLimits ==
    pc = "p_returned" =>
        \A j \in 1..Len(pack_out) :
            /\ \/ SumTokens(pack_out[j]) <= BATCH_TOKEN_BUDGET
               \/ /\ Len(pack_out[j]) = 1
                  /\ EstimatedTokens(pack_out[j][1].url) > BATCH_TOKEN_BUDGET
            /\ Len(pack_out[j]) <= BATCH_MAX_FILES

\* a returned list with a batch closed by the file cap while the next item
\* was within the budget, and with an oversized singleton
C11_Witness ==
    /\ pc = "p_returned"
    /\ \E j \in 1..(Len(pack_out) - 1) :
          /\ Len(pack_out[j]) = BATCH_MAX_FILES
          /\ SumTokens(pack_out[j]) + EstimatedTokens(pack_out[j + 1][1].url)
                <= BATCH_TOKEN_BUDGET
    /\ \E j \in 1..Len(pack_out) : SumTokens(pack_out[j]) > BATCH_TOKEN_BUDGET

\* C12: an oversized item is returned as a batch of its own, and every item of
\* the input, those after an oversized one included, is in the batches, once
\* and in input order.
C12_OversizedAlone ==
    pc = "p_returned" =>
        /\ \A it \in Oversized :
              \E j \in 1..Len(pack_out) : pack_out[j] = <<Item(it.url, it.content)>>
        /\ \A j \in 1..Len(pack_out) :
              (\E k \in 1..Len(pack_out[j]) :
                    EstimatedTokens(pack_out[j][k].url) > BATCH_TOKEN_BUDGET)
                 => Len(pack_out[j]) = 1
        /\ Flatten(pack_out) =
              [k \in 1..Len(pack_in) |-> Item(pack_in[k].url, pack_in[k].content)]

\* an oversized item between two smaller ones, all three returned
C12_Witness ==
    /\ pc = "p_returned"
    /\ \E k \in 2..(Len(pack_in) - 1) :
          /\ pack_in[k] \in Oversized
          /\ pack_in[k - 1] \notin Oversized
          /\ pack_in[k + 1] \notin Oversized
          /\ \E j \in 2..(Len(pack_out) - 1) :
                /\ pack_out[j] = <<Item(pack_in[k].url, pack_in[k].content)>>
                /\ pack_out[j - 1][Len(pack_out[j - 1])].url = pack_in[k - 1].url
                /\ pack_out[j + 1][1].url = pack_in[k + 1].url

\* C13: when a run completes, the files table holds exactly the main DB's urls
\* whose row in validation_results has is_skill true, whatever it held before.
C13_FilesAreValidVerdicts ==
    pc \in {"done", "l_done"} => files = ValidFiles(verdicts)

\* a second run has completed and left out a url the first run had accepted
C13_Witness ==
    /\ pc = "done"
    /\ run = 2
    /\ files # {}
    /\ \E u \in DOMAIN prevVerdicts :
          prevVerdicts[u].is_skill /\ ~verdicts[u].is_skill /\ u \notin files

\* The rows the step being taken commits to validation_results.
Committing ==
    IF pc = "scan" THEN LocalRows(local_results)
    ELSE IF pc = "stream" THEN txn
    ELSE results

\* C14: validation_results has one row per url; a step that commits a row for
\* a url leaves exactly that row for it, every other row stays as it was, and
\* no step removes a row.
C14_LatestVerdictKept ==
    [][/\ DOMAIN verdicts \subseteq DOMAIN verdicts'
       /\ \A u \in DOMAIN upserts :
             IF upserts'[u] > upserts[u]
             THEN u \in DOMAIN verdicts' /\ verdicts'[u] = Committing[u]
             ELSE u \in DOMAIN verdicts => verdicts'[u] = verdicts[u]]_vars

\* a later run has replaced a url's row by a different one
C14_Witness ==
    /\ run = 2
    /\ \E u \in DOMAIN prevVerdicts :
          upserts[u] > 0 /\ verdicts[u] # prevVerdicts[u]

\* C15: a call of get_cached_result comes back with None or with an entry that
\* some insert_cached_result was called with, and never fails to parse.
C15_CacheWriteAtomic ==
    \A o \in observed :
        \/ o.kind = "none"
        \/ o.kind = "entry" /\ o.entry \in WrittenEntries

\* C16: in validate.py, two urls of one run whose files hold the same content
\* cause at most one remote call between them, and the rows the run records
\* for them are equal.
C16_IdenticalContentsOneCall ==
    \A a \in Candidates, b \in Candidates :
        (a # b /\ ContentOf(a) = ContentOf(b)) =>
            /\ calls[a] + calls[b] <= 1
            /\ (pc = "v_done" /\ upserts[a] > 0 /\ upserts[b] > 0) =>
                    verdicts[a] = verdicts[b]

\* The remote calls issued and not yet returned.
Outstanding ==
    IF pc = "v_gather"
    THEN Cardinality({u \in DOMAIN tasks : tasks[u] = "calling"})
    ELSE IF pc \in {"l_gather", "l_crashed"}
    THEN Cardinality({j \in DOMAIN tasks :
                        tasks[j].st \in {"single", "batchcall", "fallback"}})
    ELSE 0

\* C17: at every moment the remote calls issued and not yet returned are at
\* most args.max_concurrent.
C17_OutstandingWithinPool == Outstanding <= max_concurrent

\* the pool is full while another task waits for a slot
C17_Witness ==
    /\ Outstanding = max_concurrent
    /\ \/ pc = "v_gather" /\ \E u \in DOMAIN tasks :
              tasks[u] = "waiting" /\ ProcessOneStart(u, disk, cache).kind = "call"
       \/ pc = "l_gather" /\ \E j \in DOMAIN tasks :
              tasks[j].st = "waiting" /\ Uncached(tasks[j].files, cache) # <<>>

\* The results handled in this run for the unit of a cache key.
ReceivedFor(cache_key) == {r \in received : r.key = cache_key}

C19_UnparsableNeverRecorded ==
    \A u \in Range(MainDbUrls) :
        parse_github_url(u) = None => u \notin DOMAIN verdicts

\* C20: a url whose content file is not on disk never has a row in
\* validation_results, so that a later run still takes it up.
C20_NoContentNeverRecorded ==
    \A u \in Range(MainDbUrls) :
        (parse_github_url(u) # None /\ ContentPath(u) \notin DOMAIN disk) =>
            u \notin DOMAIN verdicts

\* The urls of the unit of a cache key, as the phase-1 loop grouped them.
UnitUrls(cache_key) ==
    UNION {Range(uncached[k].urls) : k \in {j \in 1..Len(uncached) : uncached[j].key = cache_key}}

\* The results of this run whose type was not "succeeded".
NotSucceeded == {r \in received : r.row.reason[1] = "API error: "}

C22_NoEviction ==
    [][/\ DOMAIN cache \subseteq DOMAIN cache'
       /\ \A k \in DOMAIN cache : get_cached_result(cache', k) # None
       /\ DOMAIN cache_file \subseteq DOMAIN cache_file'
       /\ SharedKey \in DOMAIN cache_file =>
             \A o \in observed' \ observed : o.kind # "none"]_vars

\* a second run found in the cache one of the two entries the first run left
C22_Witness ==
    /\ run = 2
    /\ Cardinality(DOMAIN prevCache) >= 2
    /\ \E content \in cacheReads : prompt_hash(content) \in DOMAIN prevCache
    /\ DOMAIN prevCache \subseteq DOMAIN cache

\* The call of the helper fn has come back.
Back(fn) == pc = "h_returned" /\ call.fn = fn /\ call.returned

\* The positions of the separators of a text, and the number of its segments.
Slashes(text) == {k \in 1..Len(text) : text[k] = Slash}
NumSegments(text) == Cardinality(Slashes(text)) + 1

\* Where segment j starts (segments are numbered from 0): after the j-th separator.
SegmentStart(text, j) ==
    IF j = 0 THEN 1
    ELSE 1 + (CHOOSE k \in Slashes(text) :
                 Cardinality({i \in Slashes(text) : i <= k}) = j)

\* Segment j of a text: what stands between its separators, '' if nothing does.
Segment(text, j) ==
    IF SegmentStart(text, j) > Len(text) \/ text[SegmentStart(text, j)] = Slash
    THEN ""
    ELSE text[SegmentStart(text, j)]

\* C23: parse_github_url raises nothing; it returns None exactly when the url
\* has fewer than 8 segments, or segment 2 is not 'github.com', or segment 5
\* is not 'blob'; otherwise it returns segments 3, 4 and 6 and the text from
\* segment 7 on, separators included.
C23_ParseGithubUrlContract ==
    Back("parse_github_url") =>
        LET url == call.arg
            mismatch == \/ NumSegments(url) < 8
                        \/ Segment(url, 2) # "github.com"
                        \/ Segment(url, 5) # "blob"
        IN  /\ ~call.raised
            /\ (call.value = None) <=> mismatch
            /\ ~mismatch =>
                   call.value = <<Segment(url, 3), Segment(url, 4), Segment(url, 6),
                                  SubSeq(url, SegmentStart(url, 7), Len(url))>>

\* C23 witness: a url of nine segments came back as owner, repo, ref and a
\* path of two segments, and the owner is the segment after 'github.com'.
C23_Witness ==
    /\ Back("parse_github_url")
    /\ NumSegments(call.arg) = 9
    /\ call.value # None
    /\ call.value[1] = "o"
    /\ Len(call.value[4]) = 3
    /\ call.value[4][2] = Slash

\* The content starts with the delimiter, and the places after it where the
\* delimiter occurs again.
StartsWithDelimiter(content) ==
    Len(content) >= 3 /\ SubSeq(content, 1, 3) = Delimiter
LaterDelimiters(content) ==
    {k \in 4..(Len(content) - 2) : SubSeq(content, k, k + 2) = Delimiter}

\* The header segment: what stands between the leading delimiter and the
\* first delimiter after it.
HeaderSegment(content) ==
    SubSeq(content, 4, Min(LaterDelimiters(content)) - 1)

\* C24: has_valid_frontmatter returns true only if the content begins with
\* the delimiter, the delimiter occurs a second time, and the header between
\* them parses as key-value data (a mapping); it returns false for content
\* without the leading delimiter, without a closing one, or whose header
\* does not parse.
C24_FrontmatterIsKeyValue ==
    Back("has_valid_frontmatter") =>
        LET content == call.arg
        IN  /\ call.value =>
                  /\ StartsWithDelimiter(content)
                  /\ LaterDelimiters(content) # {}
                  /\ yaml_safe_load(HeaderSegment(content)) = "mapping"
            /\ (\/ ~StartsWithDelimiter(content)
                \/ LaterDelimiters(content) = {}
                \/ yaml_safe_load(HeaderSegment(content)) = "error") => ~call.value

\* The number of bytes of the UTF-8 encoding of a text.
RECURSIVE ByteLen(_)
ByteLen(s) ==
    IF s = <<>> THEN 0 ELSE Utf8Width(Head(s)) + ByteLen(Tail(s))

\* C25: truncate_content returns a content of at most CONTENT_MAX_BYTES bytes
\* unchanged, with no marker; of a longer one it returns a prefix of whole
\* characters that takes at most CONTENT_MAX_BYTES bytes, followed by the
\* truncation marker.
C25_TruncateWholeCharacters ==
    Back("truncate_content") =>
        LET content == call.arg
        IN  IF ByteLen(content) <= CONTENT_MAX_BYTES
            THEN call.value = content /\ Mark \notin Range(call.value)
            ELSE \E n \in 0..Len(content) :
                    /\ call.value = SubSeq(content, 1, n) \o TruncMarker
                    /\ ByteLen(SubSeq(content, 1, n)) <= CONTENT_MAX_BYTES

\* C25 witness: the byte at the budget was the first byte of a two-byte
\* character, and the content came back cut before that character.
C25_Witness ==
    /\ Back("truncate_content")
    /\ ByteLen(call.arg) > CONTENT_MAX_BYTES
    /\ \E n \in 1..Len(call.arg) :
          /\ call.arg[n] = Wide
          /\ ByteLen(SubSeq(call.arg, 1, n - 1)) = CONTENT_MAX_BYTES - 1
          /\ call.value = SubSeq(call.arg, 1, n - 1) \o TruncMarker

\* A strategy of parse_response yields an object.
Yields(found) == found.kind = "object"

\* C26: parse_response fails only if all three strategies fail: when the
\* whole text, the fenced block or the scanned span is a JSON object, the
\* call does not raise.
C26_FailsOnlyIfAllStrategiesFail ==
    Back("parse_response") =>
        (call.raised =>
            /\ ~Yields(call.arg.whole)
            /\ ~Yields(call.arg.fenced)
            /\ ~Yields(call.arg.scan))

\* The batch is one oversized item, sent alone.
OversizedAlone(batch) ==
    Len(batch) = 1 /\ EstimatedTokens(batch[1].url) > BATCH_TOKEN_BUDGET

\* C27: pack_batches is greedy.  An item x starts a new batch while a current
\* batch is open only if x is oversized, or the current batch's tokens plus
\* x's exceed BATCH_TOKEN_BUDGET, or the current batch holds BATCH_MAX_FILES
\* items; otherwise x joins the current batch.  (After an oversized item no
\* batch is open, and the next item starts one.)
C27_PackingIsGreedy ==
    pc = "p_returned" =>
        \A j \in 2..Len(pack_out) :
            LET x == pack_out[j][1]
                current_batch == pack_out[j - 1]
            IN  \/ OversizedAlone(current_batch)
                \/ EstimatedTokens(x.url) > BATCH_TOKEN_BUDGET
                \/ SumTokens(current_batch) + EstimatedTokens(x.url) > BATCH_TOKEN_BUDGET
                \/ Len(current_batch) >= BATCH_MAX_FILES

\* C27 witness: an item joined the current batch, and a batch with room for
\* another file was closed because the next item did not fit the budget.
C27_Witness ==
    /\ pc = "p_returned"
    /\ \E j \in 1..Len(pack_out) : Len(pack_out[j]) = BATCH_MAX_FILES
    /\ \E j \in 2..Len(pack_out) :
          /\ Len(pack_out[j - 1]) < BATCH_MAX_FILES
          /\ ~OversizedAlone(pack_out[j - 1])
          /\ EstimatedTokens(pack_out[j][1].url) <= BATCH_TOKEN_BUDGET
          /\ SumTokens(pack_out[j - 1]) + EstimatedTokens(pack_out[j][1].url)
                > BATCH_TOKEN_BUDGET

\* The urls of the requests submitted so far in this run.
SubmittedUrls == UNION {sent[k].urls : k \in 1..Len(sent)}

\* A step of the Batches-API pipeline keeps the events of a chunk in order:
\* results are read only of a job whose status is "ended", the chunk's rows
\* are committed only after a result was read for every request of the chunk,
\* and a job is submitted only when every job submitted before it has ended
\* and the rows of all its requests are committed.
StepInSequence ==
    pc \in {"submit", "poll", "stream"} =>
        /\ (streamed' # streamed /\ streamed' # {}) =>
              /\ batch_status = "ended"
              /\ Cardinality(streamed') = Cardinality(streamed) + 1
        /\ pc' = "stream" => batch_status = "ended"
        /\ verdicts' # verdicts =>
              /\ batch_status = "ended"
              /\ streamed = {sent[k].custom_id : k \in (chunk_start + 1)..Len(sent)}
              /\ \A u \in SubmittedUrls : u \in DOMAIN verdicts' /\ upserts'[u] > 0
        /\ sent' # sent =>
              /\ txn = Empty
              /\ sent # <<>> => batch_status = "ended"
              /\ \A u \in SubmittedUrls : u \in DOMAIN verdicts /\ upserts[u] > 0
              /\ batch_status' \in {"in_progress", "ended"}

\* C28: in the Batches-API pipeline the events of a chunk are ordered and
\* chunks do not overlap within a run: a chunk's job is submitted, polled
\* until its status is "ended", only then read and committed, and the next
\* job is submitted after that commit; no job is submitted while an earlier
\* one of the run is unfinished.
C28_ChunksInSequence == [][StepInSequence]_vars

\* C28 witness: two chunks of a run were submitted one after the other, and
\* the rows of both are committed.
C28_Witness ==
    /\ pc = "rebuild"
    /\ chunk_start = 2 * BATCH_CHUNK_SIZE
    /\ Len(sent) > BATCH_CHUNK_SIZE
    /\ txn = Empty
    /\ \A u \in SubmittedUrls : upserts[u] > 0

\* C29: when every remote call returns and every job polled reaches "ended",
\* every run of the Batches-API pipeline that is started ends with the files
\* table rebuilt; a job whose status is "ended" is not polled again, and no
\* unit is submitted twice in a run.
C29_RunEndsRebuilt ==
    /\ \A r \in 1..MaxRuns : (run = r /\ pc = "idle") ~> (run = r /\ pc = "done")
    /\ (pc = "poll" /\ batch_status = "ended") ~> (pc = "stream")
    /\ [](\A j \in 1..Len(sent), k \in 1..Len(sent) :
             sent[j].custom_id = sent[k].custom_id => j = k)

\* C29 witness: a run that submitted two chunks has ended, its files table
\* rebuilt from the rows of both.
C29_Witness ==
    /\ pc = "done"
    /\ Len(sent) > BATCH_CHUNK_SIZE
    /\ \A u \in SubmittedUrls : upserts[u] > 0
    /\ files = ValidFiles(verdicts)

\* The candidates whose unit had its cache entry written by the previous run
\* while no row was committed for them: that run ended between the two.
LeftUncommitted ==
    {u \in Range(MainDbUrls) \ DOMAIN prevVerdicts :
        /\ parse_github_url(u) # None
        /\ ContentPath(u) \in DOMAIN disk
        /\ has_valid_frontmatter(ContentOf(u))
        /\ prompt_hash(ContentOf(u)) \in DOMAIN prevCache}

\* C30: after a run that ended when a unit's cache entry was written and its
\* chunk's rows were not committed, the next run submits no request for the
\* unit and, once its phase-1 rows are written, has recorded the cached
\* verdict for every url of the unit.
C30_InterruptedUnitRecordedFromCache ==
    run >= 2 =>
        \A u \in LeftUncommitted :
            LET cache_key == prompt_hash(ContentOf(u))
            IN  /\ \A k \in 1..Len(sent) :
                      sent[k].custom_id # cache_key /\ u \notin sent[k].urls
                /\ Scanned =>
                      /\ u \in DOMAIN verdicts
                      /\ upserts[u] > 0
                      /\ verdicts[u] = Row(prevCache[cache_key].is_skill,
                                           prevCache[cache_key].reason)

\* C30 witness: a unit of two urls was left uncommitted by the first run, and
\* the second run has ended with the cached verdict recorded for both.
C30_Witness ==
    /\ run = 2
    /\ pc = "done"
    /\ \E a \in LeftUncommitted, b \in LeftUncommitted :
          /\ a # b
          /\ ContentOf(a) = ContentOf(b)
          /\ verdicts[a] = verdicts[b]
          /\ verdicts[a] = Row(prevCache[prompt_hash(ContentOf(a))].is_skill,
                               prevCache[prompt_hash(ContentOf(a))].reason)

\* C31: pack_batches neither drops, duplicates nor reorders items and returns
\* no empty batch: the returned batches, one after the other, are the (url,
\* content) pairs of the input in input order, and every batch has an item.
C31_PackKeepsEveryItem ==
    pc = "p_returned" =>
        /\ Flatten(pack_out) =
              [k \in 1..Len(pack_in) |-> Item(pack_in[k].url, pack_in[k].content)]
        /\ \A j \in 1..Len(pack_out) : Len(pack_out[j]) >= 1

\* C31 witness: an input that starts with an item of no tokens and holds an
\* oversized one came back as three batches or more.
C31_Witness ==
    /\ pc = "p_returned"
    /\ Len(pack_in) = MaxItems
    /\ EstimatedTokens(pack_in[1].url) = 0
    /\ Oversized # {}
    /\ Len(pack_out) >= 3
    /\ pack_out[1][1].url = pack_in[1].url

\* The urls the current run wrote a row for in validation_results.
UpsertedInRun == {u \in DOMAIN upserts : upserts[u] > 0}

\* C32: when a run of the Batches-API pipeline has completed, every url it
\* upserted has a cache entry under the key of its content, and that entry's
\* (is_skill, reason) is the row validation_results holds for the url.
C32_UpsertedMatchesCache ==
    pc = "done" =>
        \A u \in UpsertedInRun :
            /\ get_cached_result(cache, prompt_hash(ContentOf(u))) # None
            /\ get_cached_result(cache, prompt_hash(ContentOf(u)))[1] = verdicts[u]

\* C32 witness: a completed second run upserted one url from an entry the
\* cache already held and another from a result it streamed, a failure.
C32_Witness ==
    /\ pc = "done"
    /\ run = 2
    /\ \E u, w \in UpsertedInRun :
          /\ prompt_hash(ContentOf(u)) \in DOMAIN prevCache
          /\ prompt_hash(ContentOf(w)) \notin DOMAIN prevCache
          /\ ~verdicts[w].is_skill
          /\ \E r \in received : r.key = prompt_hash(ContentOf(w))

\* The file lies below the content root.
UnderRoot(file) ==
    /\ Len(file) > Len(content_dir)
    /\ SubSeq(file, 1, Len(content_dir)) = content_dir
    /\ \A k \in 1..Len(file) : file[k] # ".."

\* C33: every content file a pipeline reads lies under the content root,
\* whatever the identifier: a path part that starts with an empty segment or
\* holds '..' segments included.
C33_ReadsStayUnderRoot ==
    (pc = "r_returned" /\ call.value # None) => UnderRoot(call.value[1])

\* The results of this run whose response parsed as an object without is_skill.
LackingVerdict ==
    {r \in received :
        /\ r.outcome.type = "succeeded"
        /\ parse_response(r.outcome.text).kind = "object"
        /\ "is_skill" \notin DOMAIN parse_response(r.outcome.text).fields}

\* the reason the object gives, or the empty one
ReasonOf(obj) ==
    IF "reason" \in DOMAIN obj.fields THEN obj.fields["reason"] ELSE Reason("", "")

RemoteCallsOf(j) ==
    {k \in 1..Len(sent) :
        /\ sent[k].urls # {}
        /\ sent[k].urls \subseteq {f.url : f \in Range(tasks[j].unc)}}

\* C35: validate_batch_files returns on every path, with a result under the
\* url of each input file, and makes at most 1 + n remote calls for its n
\* uncached files.
C35_BatchReturnsOnePerFile ==
    /\ pc # "l_crashed"
    /\ pc = "l_gather" =>
          \A j \in DOMAIN tasks :
              /\ tasks[j].st = "finished" =>
                    \A k \in 1..Len(tasks[j].files) :
                        tasks[j].files[k].url \in DOMAIN results
              /\ Cardinality(RemoteCallsOf(j)) <= 1 + Len(tasks[j].unc)

====
